---- MODULE Spec2Model ----
(***************************************************************************)
(* Verification model of mole (a terminal UI over the ngrok capture feed). *)
(*                                                                         *)
(* Go strings are modelled as sequences of byte values (0..255), so that   *)
(* lower-casing, substring search, prefix tests, number parsing and base64 *)
(* decoding are computed the way the code computes them.  A comment next   *)
(* to each literal gives its text.                                         *)
(***************************************************************************)
EXTENDS Integers, Sequences, FiniteSets, TLC

(***************************************************************************)
(* Byte-string helpers (Go package strings / fmt)                          *)
(***************************************************************************)

\* strings.ToLower on ASCII text
ToLower(s) == [i \in 1..Len(s) |-> IF s[i] >= 65 /\ s[i] <= 90 THEN s[i] + 32 ELSE s[i]]

\* s[from:] (from is a 0-based Go index)
SliceFrom(s, from) == SubSeq(s, from + 1, Len(s))

\* s[:to] (to is a 0-based, exclusive Go index)
SliceTo(s, to) == SubSeq(s, 1, to)

\* strings.Index: 0-based position of the first occurrence of sub in s, or -1
Index(s, sub) ==
  LET hits == {i \in 0..(Len(s) - Len(sub)) : SubSeq(s, i + 1, i + Len(sub)) = sub}
  IN  IF hits = {} THEN -1 ELSE CHOOSE i \in hits : \A j \in hits : i <= j

\* strings.Contains
Contains(s, sub) == Index(s, sub) # -1

\* strings.HasPrefix
HasPrefix(s, prefix) == Len(s) >= Len(prefix) /\ SubSeq(s, 1, Len(prefix)) = prefix

\* strings.TrimPrefix
TrimPrefix(s, prefix) == IF HasPrefix(s, prefix) THEN SliceFrom(s, Len(prefix)) ELSE s

\* unicode.IsSpace restricted to ASCII: \t \n \v \f \r and space
IsSpace(c) == c \in {9, 10, 11, 12, 13, 32}

\* strings.TrimSpace
TrimSpace(s) ==
  LET keep == {i \in 1..Len(s) : ~IsSpace(s[i])}
  IN  IF keep = {} THEN << >>
      ELSE LET lo == CHOOSE i \in keep : \A j \in keep : i <= j
               hi == CHOOSE i \in keep : \A j \in keep : i >= j
           IN  SubSeq(s, lo, hi)

IsDigit(c) == c >= 48 /\ c <= 57

RECURSIVE Itoa(_)
\* fmt.Sprintf("%d", n) for n >= 0
Itoa(n) == IF n < 10 THEN <<48 + n>> ELSE Append(Itoa(n \div 10), 48 + (n % 10))

RECURSIVE Pow10(_)
Pow10(k) == IF k = 0 THEN 1 ELSE 10 * Pow10(k - 1)

RECURSIVE DigitsValue(_)
\* value of a sequence of decimal digits
DigitsValue(ds) == IF ds = << >> THEN 0
                   ELSE 10 * DigitsValue(SubSeq(ds, 1, Len(ds) - 1)) + (ds[Len(ds)] - 48)

RECURSIVE Gcd(_, _)
Gcd(a, b) == IF b = 0 THEN a ELSE Gcd(b, a % b)

Abs(n) == IF n < 0 THEN -n ELSE n

(***************************************************************************)
(* float64 values are modelled exactly, as reduced fractions num/den       *)
(* (den > 0) or as one of the special values +Inf, -Inf, NaN.              *)
(***************************************************************************)
Rat(n, d) == LET g == Gcd(Abs(n), d) IN [kind |-> "num", num |-> n \div g, den |-> d \div g]
PosInf == [kind |-> "inf", num |-> 1, den |-> 1]
NegInf == [kind |-> "inf", num |-> -1, den |-> 1]
NaN == [kind |-> "nan", num |-> 0, den |-> 1]

\* x * k for an integer constant k > 0
FMul(x, k) == IF x.kind = "num" THEN Rat(x.num * k, x.den) ELSE x

\* x < y on float64 (false whenever either side is NaN)
FLess(x, y) ==
  CASE x.kind = "nan" \/ y.kind = "nan" -> FALSE
    [] x.kind = "inf" /\ y.kind = "inf" -> x.num < y.num
    [] x.kind = "inf" -> x.num < 0
    [] y.kind = "inf" -> y.num > 0
    [] OTHER -> x.num * y.den < y.num * x.den

FEq(x, y) ==
  CASE x.kind = "nan" \/ y.kind = "nan" -> FALSE
    [] x.kind = "inf" \/ y.kind = "inf" -> x.kind = y.kind /\ x.num = y.num
    [] OTHER -> x.num * y.den = y.num * x.den

(***************************************************************************)
(* strconv.ParseFloat(s, 64) on the decimal grammar                        *)
(*   sign? ( digit+ [ '.' digit... ] | '.' digit+ ) [ e|E sign? digit+ ]    *)
(* and on the special spellings [+-]?inf, [+-]?infinity, nan (any case).   *)
(* The result is [ok |-> err = nil, val |-> the float].                    *)
(***************************************************************************)
ParseFail == [ok |-> FALSE, val |-> Rat(0, 1)]

HasSign(s) == Len(s) > 0 /\ s[1] \in {43, 45}

Unsigned(s) == IF HasSign(s) THEN Tail(s) ELSE s

\* strconv.special: the text is an infinity or a NaN
IsInfText(s) == ToLower(Unsigned(s)) \in {<<105,110,102>>, <<105,110,102,105,110,105,116,121>>}

IsNaNText(s) == ToLower(s) = <<110,97,110>>

\* position (1-based) of the exponent marker e/E in s, 0 when absent
ExpMark(s) ==
  LET es == {i \in 1..Len(s) : s[i] \in {101, 69}}
  IN  IF es = {} THEN 0 ELSE CHOOSE i \in es : \A j \in es : i <= j

Mantissa(s) == IF ExpMark(s) = 0 THEN s ELSE SubSeq(s, 1, ExpMark(s) - 1)

Exponent(s) == IF ExpMark(s) = 0 THEN << >> ELSE SubSeq(s, ExpMark(s) + 1, Len(s))

MantissaOK(m) ==
  /\ \A i \in 1..Len(m) : IsDigit(m[i]) \/ m[i] = 46
  /\ Cardinality({i \in 1..Len(m) : m[i] = 46}) <= 1
  /\ \E i \in 1..Len(m) : IsDigit(m[i])

ExponentOK(e) ==
  /\ Len(Unsigned(e)) > 0
  /\ \A i \in 1..Len(Unsigned(e)) : IsDigit(Unsigned(e)[i])

\* the decimal value of a well-formed literal body (no sign)
DecimalValue(s) ==
  LET m      == Mantissa(s)
      digits == SelectSeq(m, IsDigit)
      dots   == {i \in 1..Len(m) : m[i] = 46}
      frac   == IF dots = {} THEN 0 ELSE Len(m) - (CHOOSE i \in dots : TRUE)
      e      == Exponent(s)
      ev     == DigitsValue(Unsigned(e))
      neg    == HasSign(e) /\ e[1] = 45
      up     == IF neg THEN 0 ELSE ev
      down   == frac + (IF neg THEN ev ELSE 0)
  IN  Rat(DigitsValue(digits) * Pow10(up), Pow10(down))

ParseFloat(s) ==
  LET neg  == HasSign(s) /\ s[1] = 45
      body == Unsigned(s)
  IN  CASE IsInfText(s) -> [ok |-> TRUE, val |-> IF neg THEN NegInf ELSE PosInf]
        [] IsNaNText(s) -> [ok |-> TRUE, val |-> NaN]
        [] /\ MantissaOK(Mantissa(body))
           /\ (ExpMark(body) # 0 => ExponentOK(Exponent(body)))
             -> LET v == DecimalValue(body)
                IN  [ok |-> TRUE, val |-> IF neg THEN Rat(-v.num, v.den) ELSE v]
        [] OTHER -> ParseFail

(***************************************************************************)
(* encoding/base64: StdEncoding and URLEncoding DecodeString               *)
(***************************************************************************)

\* the 6-bit value of an alphabet character, -1 for any other byte
B64Value(c, url) ==
  CASE c >= 65 /\ c <= 90  -> c - 65
    [] c >= 97 /\ c <= 122 -> c - 71
    [] c >= 48 /\ c <= 57  -> c + 4
    [] ~url /\ c = 43 -> 62
    [] ~url /\ c = 47 -> 63
    [] url /\ c = 45 -> 62
    [] url /\ c = 95 -> 63
    [] OTHER -> -1

NotNewline(c) == c \notin {10, 13}

\* number of trailing '=' of s
PadCount(s) ==
  LET np == {i \in 1..Len(s) : s[i] # 61}
  IN  IF np = {} THEN Len(s) ELSE Len(s) - (CHOOSE i \in np : \A j \in np : i >= j)

\* the bytes of one quantum of 4 characters carrying pad trailing '='
DecodeQuantum(q, pad, url) ==
  LET v(i) == IF i > 4 - pad THEN 0 ELSE B64Value(q[i], url)
      w == v(1) * 262144 + v(2) * 4096 + v(3) * 64 + v(4)
      all == <<w \div 65536, (w \div 256) % 256, w % 256>>
  IN  SubSeq(all, 1, 3 - pad)

RECURSIVE DecodeQuanta(_, _, _)
DecodeQuanta(s, pad, url) ==
  IF Len(s) = 0 THEN << >>
  ELSE IF Len(s) = 4 THEN DecodeQuantum(s, pad, url)
  ELSE DecodeQuantum(SubSeq(s, 1, 4), 0, url) \o DecodeQuanta(SubSeq(s, 5, Len(s)), pad, url)

\* DecodeString: [ok |-> err = nil, bytes |-> decoded]; \r and \n are skipped
Base64Decode(raw, url) ==
  LET s   == SelectSeq(raw, NotNewline)
      pad == PadCount(s)
      wellFormed ==
        /\ Len(s) % 4 = 0
        /\ pad <= 2
        /\ \A i \in 1..(Len(s) - pad) : B64Value(s[i], url) # -1
  IN  IF wellFormed THEN [ok |-> TRUE, bytes |-> DecodeQuanta(s, pad, url)]
      ELSE [ok |-> FALSE, bytes |-> << >>]

(***************************************************************************)
(* internal/ngrok/types.go                                                 *)
(*                                                                         *)
(* An HTTPData value is a record [Method, URI, Headers, Raw, StatusCode,   *)
(* Status]; Headers (a Go map[string][]string) is a function from header   *)
(* keys to sequences of values.  A Request is a record [ID, Duration,      *)
(* Request, Response, ResponseStatus] with Duration in nanoseconds.        *)
(***************************************************************************)

CRLFCRLF == <<13, 10, 13, 10>>

LFLF == <<10, 10>>

\* the end of DecodeBody: the text after the header separator of raw
BodyAfterHeaders(raw) ==
  IF Index(raw, CRLFCRLF) = -1
  THEN IF Index(raw, LFLF) = -1 THEN raw
       ELSE TrimSpace(SliceFrom(raw, Index(raw, LFLF) + 2))
  ELSE TrimSpace(SliceFrom(raw, Index(raw, CRLFCRLF) + 4))

\* the same, looking for \n\n before \r\n\r\n
BodyAfterHeadersLfFirst(raw) ==
  IF Index(raw, LFLF) = -1
  THEN IF Index(raw, CRLFCRLF) = -1 THEN raw
       ELSE TrimSpace(SliceFrom(raw, Index(raw, CRLFCRLF) + 4))
  ELSE TrimSpace(SliceFrom(raw, Index(raw, LFLF) + 2))

\* DecodeBody yielding "" when the raw value is not base64
DecodeBodyEmptyOnError(h) ==
  IF h.Raw = << >> THEN << >>
  ELSE CHOOSE body \in
         {IF ~std.ok /\ ~url.ok THEN << >>
          ELSE CHOOSE b \in {BodyAfterHeaders(raw) :
                              raw \in {IF std.ok THEN std.bytes ELSE url.bytes}} : TRUE
            : std \in {Base64Decode(h.Raw, FALSE)}, url \in {Base64Decode(h.Raw, TRUE)}} : TRUE

\* DecodeBody looking for \n\n before \r\n\r\n
DecodeBodyLfFirst(h) ==
  IF h.Raw = << >> THEN << >>
  ELSE CHOOSE body \in
         {IF ~std.ok /\ ~url.ok THEN h.Raw
          ELSE CHOOSE b \in {BodyAfterHeadersLfFirst(raw) :
                              raw \in {IF std.ok THEN std.bytes ELSE url.bytes}} : TRUE
            : std \in {Base64Decode(h.Raw, FALSE)}, url \in {Base64Decode(h.Raw, TRUE)}} : TRUE

\* HTTPData.DecodeBody: std and url are the results of the two decoders,
\* raw the decoded bytes (each is computed once and bound)
DecodeBody(h) ==
  IF h.Raw = << >> THEN << >>
  ELSE CHOOSE body \in
         {IF ~std.ok /\ ~url.ok THEN h.Raw
          ELSE CHOOSE b \in {BodyAfterHeaders(raw) :
                              raw \in {IF std.ok THEN std.bytes ELSE url.bytes}} : TRUE
            : std \in {Base64Decode(h.Raw, FALSE)}, url \in {Base64Decode(h.Raw, TRUE)}} : TRUE

RECURSIVE DigitsOnly(_)
\* code = code*10 + digit over the digits of s, skipping every other byte
DigitsOnly(s) ==
  IF s = << >> THEN 0
  ELSE LET rest == DigitsOnly(SubSeq(s, 1, Len(s) - 1))
           c == s[Len(s)]
       IN  IF IsDigit(c) THEN rest * 10 + (c - 48) ELSE rest

\* strings.SplitN(line, " ", 3): the parts of line
SplitN3(line) ==
  LET i1 == Index(line, <<32>>)
  IN  IF i1 = -1 THEN <<line>>
      ELSE LET rest == SliceFrom(line, i1 + 1)
               i2 == Index(rest, <<32>>)
           IN  IF i2 = -1 THEN <<SliceTo(line, i1), rest>>
               ELSE <<SliceTo(line, i1), SliceTo(rest, i2), SliceFrom(rest, i2 + 1)>>

\* the status code read from the first line of the base64-decoded raw response
StatusFromRaw(raw) ==
  LET dec == Base64Decode(raw, FALSE)
  IN  IF raw = << >> \/ ~dec.ok THEN 0
      ELSE LET idx == Index(dec.bytes, <<10>>)
               line == IF idx > 0 THEN SliceTo(dec.bytes, idx) ELSE dec.bytes
               parts == SplitN3(line)
           IN  IF Len(parts) >= 2 THEN DigitsOnly(parts[2]) ELSE 0

\* Request.StatusCode
StatusCode(r) ==
  CASE r.Response.StatusCode > 0 -> r.Response.StatusCode
    [] Len(r.ResponseStatus) >= 3 /\ DigitsOnly(SliceTo(r.ResponseStatus, 3)) > 0
         -> DigitsOnly(SliceTo(r.ResponseStatus, 3))
    [] Len(r.Response.Status) >= 3 /\ DigitsOnly(SliceTo(r.Response.Status, 3)) > 0
         -> DigitsOnly(SliceTo(r.Response.Status, 3))
    [] OTHER -> StatusFromRaw(r.Response.Raw)

\* Request.DurationMs
DurationMs(r) == Rat(r.Duration, 1000000)

\* Request.ResponseSize
ResponseSize(r) == Len(DecodeBody(r.Response))

(***************************************************************************)
(* The filter engine (package tui)                                         *)
(*                                                                         *)
(* A Filter is a record [Field, Operator, Unit, Value, LogicalOperator];   *)
(* Field and Value are byte strings, the other three are compared by       *)
(* equality only and are kept as plain strings.                            *)
(***************************************************************************)

FieldStatus == <<115,116,97,116,117,115>>                          \* "status"
FieldPath == <<112,97,116,104>>                                    \* "path"
FieldDuration == <<100,117,114,97,116,105,111,110>>                \* "duration"
FieldResponseSize == <<114,101,115,112,111,110,115,101,95,115,105,122,101>> \* "response_size"
HeaderPrefix == <<104,101,97,100,101,114,46>>                      \* "header."

\* compareFloat
compareFloat(val, op, target) ==
  CASE op = ">"  -> FLess(target, val)
    [] op = "<"  -> FLess(val, target)
    [] op = ">=" -> FLess(target, val) \/ FEq(val, target)
    [] op = "<=" -> FLess(val, target) \/ FEq(val, target)
    [] OTHER -> FALSE

\* msPerUnit without the conversion of seconds
msPerUnitSecondsAsMs(unit) ==
  CASE unit = "ms" -> 1
    [] unit = "s"  -> 1
    [] unit = "m"  -> 60 * 1000
    [] unit = "h"  -> 60 * 60 * 1000
    [] unit = "d"  -> 24 * 60 * 60 * 1000
    [] OTHER -> 1

\* the factor of the switch on unit in compareDuration (unknown unit: 1)
msPerUnit(unit) ==
  CASE unit = "ms" -> 1
    [] unit = "s"  -> 1000
    [] unit = "m"  -> 60 * 1000
    [] unit = "h"  -> 60 * 60 * 1000
    [] unit = "d"  -> 24 * 60 * 60 * 1000
    [] OTHER -> 1

\* compareDuration without the early return on a parse error (t is 0 then)
compareDurationIgnoringError(valMs, op, unit, target) ==
  compareFloat(valMs, op, FMul(ParseFloat(target).val, msPerUnit(unit)))

\* compareDuration
compareDuration(valMs, op, unit, target) ==
  LET t == ParseFloat(target)
  IN  IF ~t.ok THEN FALSE
      ELSE compareFloat(valMs, op, FMul(t.val, msPerUnit(unit)))

\* the factor of the switch on unit in compareSize (unknown unit: 1)
bytesPerUnit(unit) ==
  CASE unit = "b"  -> 1
    [] unit = "kb" -> 1024
    [] unit = "mb" -> 1024 * 1024
    [] OTHER -> 1

\* compareSize
compareSize(valBytes, op, unit, target) ==
  LET t == ParseFloat(target)
  IN  IF ~t.ok THEN FALSE
      ELSE compareFloat(Rat(valBytes, 1), op, FMul(t.val, bytesPerUnit(unit)))

\* compareStringOp
compareStringOp(val, op, target) ==
  CASE op = "=="     -> val = target
    [] op = "!="     -> val # target
    [] op = "match"  -> Contains(ToLower(val), ToLower(target))
    [] op = "!match" -> ~Contains(ToLower(val), ToLower(target))
    [] OTHER -> FALSE

\* getHeaderValue returning a placeholder "-" for an absent header
getHeaderValueDash(req, headerName) ==
  LET h == req.Request.Headers
      hits == {k \in DOMAIN h : ToLower(k) = ToLower(headerName) /\ Len(h[k]) > 0}
  IN  IF hits = {} THEN {<<45>>} ELSE {h[k][1] : k \in hits}

\* getHeaderValue: the values the range over the header map can return.  Go
\* visits map keys in an unspecified order that changes between runs, so
\* every key that passes the test can be the first one visited.
getHeaderValue(req, headerName) ==
  LET h == req.Request.Headers
      hits == {k \in DOMAIN h : ToLower(k) = ToLower(headerName) /\ Len(h[k]) > 0}
  IN  IF hits = {} THEN {<< >>} ELSE {h[k][1] : k \in hits}

\* matchesFilter: the set of results it can return (a singleton unless the
\* header lookup has several outcomes)
matchesFilter(req, f) ==
  CASE f.Field = FieldStatus ->
         {compareStringOp(val, f.Operator, f.Value) : val \in {Itoa(StatusCode(req))}}
    [] f.Field = FieldPath -> {compareStringOp(req.Request.URI, f.Operator, f.Value)}
    [] f.Field = FieldDuration -> {compareDuration(DurationMs(req), f.Operator, f.Unit, f.Value)}
    [] f.Field = FieldResponseSize ->
         {compareSize(val, f.Operator, f.Unit, f.Value) : val \in {ResponseSize(req)}}
    [] OTHER ->
         IF HasPrefix(f.Field, HeaderPrefix)
         THEN {compareStringOp(val, f.Operator, f.Value) :
                 val \in getHeaderValue(req, TrimPrefix(f.Field, HeaderPrefix))}
         ELSE {TRUE}

\* combine reading the operator of the current filter, not of the previous one
combineCurrentOperator(chain, i, result, currentMatch) ==
  IF chain[i].LogicalOperator = "||" THEN result \/ currentMatch
  ELSE result /\ currentMatch

\* the body of the loop of matchesAllFilters: result after filter i (i >= 2)
combine(chain, i, result, currentMatch) ==
  IF chain[i - 1].LogicalOperator = "||" THEN result \/ currentMatch
  ELSE result /\ currentMatch

RECURSIVE matchesLoop(_, _, _, _)
\* the loop of matchesAllFilters from index i on, with the result so far
matchesLoop(req, chain, i, result) ==
  IF i > Len(chain) THEN {result}
  ELSE UNION {matchesLoop(req, chain, i + 1, combine(chain, i, result, cur)) :
                cur \in matchesFilter(req, chain[i])}

\* matchesAllFilters: the set of results it can return
matchesAllFilters(req, chain) ==
  IF Len(chain) = 0 THEN {TRUE}
  ELSE UNION {matchesLoop(req, chain, 2, first) : first \in matchesFilter(req, chain[1])}

(***************************************************************************)
(* Inputs of the filter engine and of the body decoder                     *)
(***************************************************************************)

\* the largest number of filters in a chain drawn for the chain evaluation
MaxChain == 3

\* the number of times one input is evaluated (two runs of the same lookup)
MaxEvals == 2

NoHeaders == << >>

HTTPData(method, uri, headers, raw, statusCode) ==
  [Method |-> method, URI |-> uri, Headers |-> headers, Raw |-> raw,
   StatusCode |-> statusCode, Status |-> << >>]

NewRequest(id, method, uri, statusCode, durationNs, headers, respRaw) ==
  [ID |-> id, Start |-> 0, Duration |-> durationNs,
   Request |-> HTTPData(method, uri, headers, << >>, 0),
   Response |-> HTTPData(<< >>, << >>, NoHeaders, respRaw, statusCode),
   ResponseStatus |-> << >>]

NewFilter(field, op, unit, value, logical) ==
  [Field |-> field, Operator |-> op, Unit |-> unit, Value |-> value,
   LogicalOperator |-> logical]

TxtGET == <<71,69,84>>                       \* "GET"
TxtPOST == <<80,79,83,84>>                   \* "POST"
TxtApiLower == <<47,97,112,105>>             \* "/api"
TxtApiUpper == <<47,65,80,73>>               \* "/API"
TxtApiX == <<47,65,80,73,47,120>>            \* "/API/x"
TxtAccept == <<65,99,99,101,112,116>>        \* "Accept"
TxtAcceptLower == <<97,99,99,101,112,116>>   \* "accept"
TxtAcceptUpper == <<65,67,67,69,80,84>>      \* "ACCEPT"
FieldMethod == <<109,101,116,104,111,100>>   \* "method"
FieldHeaderAccept == HeaderPrefix \o TxtAcceptLower  \* "header.accept"

\* "HTTP/1.1 200 OK\r\n\r\nhello" in standard base64
RawHello == <<83,70,82,85,85,67,56,120,76,106,69,103,77,106,65,119,73,69,57,76,
              68,81,111,78,67,109,104,108,98,71,120,118>>

\* "!!": not base64 in either alphabet
RawBang == <<33, 33>>

\* GET /api 200, 1500 ms, Accept: a/b, x; response body "hello"
ReqA == NewRequest("a", TxtGET, TxtApiLower, 200, 1500000000,
                   (TxtAccept :> << <<97,47,98>>, <<120>> >>), RawHello)

\* POST /API 404, 900 ms, no headers, no response body
ReqB == NewRequest("b", TxtPOST, TxtApiUpper, 404, 900000000, NoHeaders, << >>)

\* POST /API/x 500, 1000 ms, two header keys that differ in case only
ReqC == NewRequest("c", TxtPOST, TxtApiX, 500, 1000000000,
                   (TxtAccept :> << <<120>> >>) @@ (TxtAcceptLower :> << <<121>> >>),
                   RawBang)

\* GET /api, no status yet, 0 ms, a header key with an empty value list
ReqD == NewRequest("d", TxtGET, TxtApiLower, 0, 0, (TxtAcceptUpper :> << >>), << >>)

EngineRequests == {ReqA, ReqB, ReqC, ReqD}

StringOps == {"==", "!=", "match", "!match"}

NumericOps == {">", "<", ">=", "<="}

DurationUnits == {"ms", "s", "m", "h", "d"}

SizeUnits == {"b", "kb", "mb"}

\* literals that are not numbers: "", "abc", ".", "1e", "1.5.1", "--1"
NonNumericValues ==
  {<< >>, <<97,98,99>>, <<46>>, <<49,101>>, <<49,46,53,46,49>>, <<45,45,49>>}

\* decimal literals: "1", "1.5", "0.5", "2", "5", "1e1"
DecimalValues ==
  {<<49>>, <<49,46,53>>, <<48,46,53>>, <<50>>, <<53>>, <<49,101,49>>}

\* texts compared with status, path, method and header values:
\* "/api", "AP", "200", "GET", "x", "500"
TextValues ==
  {TxtApiLower, <<65,80>>, <<50,48,48>>, TxtGET, <<120>>, <<53,48,48>>}

\* the (field, unit) pairs of the filters on a numeric field, drawn with
\* the units of both numeric fields and with no unit
NumericFieldUnits ==
  ({FieldDuration} \X (DurationUnits \cup {"", "kb"}))
    \cup ({FieldResponseSize} \X (SizeUnits \cup {"", "s"}))

\* every single filter drawn: any operator on any field; the literals of a
\* numeric field stay below 2^31 after the conversion to ms or bytes
SingleFilters ==
  {NewFilter(fld, op, "", v, "") :
     fld \in {FieldStatus, FieldPath, FieldMethod, FieldHeaderAccept},
     op \in StringOps \cup NumericOps,
     v \in NonNumericValues \cup DecimalValues \cup TextValues}
  \cup
  {NewFilter(fu[1], op, fu[2], v, "") :
     fu \in NumericFieldUnits, op \in StringOps \cup NumericOps,
     v \in NonNumericValues \cup DecimalValues}

\* the filters chained by the fold: status==200, method==GET, status==500,
\* duration>1 s, each linked to the next filter by && or by ||
ChainFilters ==
  {NewFilter(b[1], b[2], b[3], b[4], l) :
     b \in {<<FieldStatus, "==", "", <<50,48,48>>>>,
            <<FieldMethod, "==", "", TxtGET>>,
            <<FieldStatus, "==", "", <<53,48,48>>>>,
            <<FieldDuration, ">", "s", <<49>>>>},
     l \in {"&&", "||"}}

RECURSIVE SeqsUpTo(_, _)
\* the sequences over S of length 1..n
SeqsUpTo(S, n) ==
  IF n = 0 THEN {}
  ELSE LET shorter == SeqsUpTo(S, n - 1)
       IN  {<<x>> : x \in S} \cup shorter \cup {Append(q, x) : q \in shorter, x \in S}

\* the character of a 6-bit value in the standard or URL-safe alphabet
B64Char(v, url) ==
  CASE v < 26 -> 65 + v
    [] v < 52 -> 71 + v
    [] v < 62 -> v - 4
    [] v = 62 -> IF url THEN 45 ELSE 43
    [] OTHER  -> IF url THEN 95 ELSE 47

RECURSIVE Base64Encode(_, _)
\* the padded base64 text the capture feed sends for the message msg
Base64Encode(msg, url) ==
  IF Len(msg) = 0 THEN << >>
  ELSE
    LET n == IF Len(msg) >= 3 THEN 3 ELSE Len(msg)
        b(i) == IF i <= n THEN msg[i] ELSE 0
        w == b(1) * 65536 + b(2) * 256 + b(3)
        c(k) == B64Char((w \div (CASE k = 1 -> 262144 [] k = 2 -> 4096 [] k = 3 -> 64 [] OTHER -> 1)) % 64, url)
        q == CASE n = 3 -> <<c(1), c(2), c(3), c(4)>>
               [] n = 2 -> <<c(1), c(2), c(3), 61>>
               [] OTHER -> <<c(1), c(2), 61, 61>>
    IN  q \o Base64Encode(SubSeq(msg, n + 1, Len(msg)), url)

\* heads of the captured messages: "h", "a\n\nb", ""
MessageHeads == {<<104>>, <<97,10,10,98>>, << >>}

MessageSeparators == {<< >>, CRLFCRLF, LFLF}

\* bodies: "", "x", " b \n", "x\n\ny", "~~~", "x\r\n\r\ny"
MessageBodies ==
  {<< >>, <<120>>, <<32,98,32,10>>, <<120,10,10,121>>, <<126,126,126>>,
   <<120,13,10,13,10,121>>}

Messages == {h \o sp \o b : h \in MessageHeads, sp \in MessageSeparators, b \in MessageBodies}

\* how the raw field carries a message: standard base64, URL-safe base64,
\* or the text itself
Encodings == {"std", "url", "text"}

RawOf(msg, enc) ==
  CASE enc = "std" -> Base64Encode(msg, FALSE)
    [] enc = "url" -> Base64Encode(msg, TRUE)
    [] OTHER -> msg

(***************************************************************************)
(* State                                                                   *)
(***************************************************************************)
VARIABLES
  fReq,     \* the request given to the filter engine or to the decoder
  fChain,   \* the filter chain (App.activeFilters) given to matchesAllFilters
  fQuery,   \* the search query (App.searchQuery) given to the search loop
  fResult,  \* the results returned by the calls of matchesAllFilters so far
  fHeader,  \* the values returned by the calls of getHeaderValue so far
  dMsg,     \* the message the feed encoded into fReq.Response.Raw
  dBody,    \* the result of Response.DecodeBody(), once called
  dSize     \* the result of ResponseSize(), once called

\* the fields of App (the Bubbletea model)
VARIABLES
  focus, prevFocus,
  tunnels,              \* the PublicURL of each tunnel
  requests, filteredReqs, selected, lastError,
  searchQuery, searchCursor,
  filterStep, filterInput, filterCursor, filterSelected,
  activeFilters, pendingFilter,
  filteredFields,       \* the rows of filterFields listed, by their index
  diffRequestA,         \* the ID of the request marked for a diff, "" for nil
  diffRequestB,         \* the ID of the request it is compared with, "" for nil
  replayEditStep,
  replayEditSelected,
  replayEditMethod,
  replayEditHeaders,    \* len(a.replayEditHeaders)
  replayHeaderField,
  historySessions, historySelectedSess,
  savedReqIDs, viewingHistory, viewingSessionID,
  loading

\* the Storage object and its database
VARIABLES
  storage,      \* App.storage # nil
  sessionID,    \* Storage.sessionID; 0 stands for ""
  dbSessions,   \* table sessions: id -> [tunnel_url, started_at, ended_at]
  dbRequests,   \* table requests: id -> row
  dbOpen,       \* Storage.db has not been closed
  clock,        \* time.Now(); a session started now gets this id
  started,      \* the ids of the sessions this process has inserted
  ret           \* the last call made on the Storage alone, with its result

\* commands whose result message has not been delivered yet
VARIABLES
  tunnelsPending,  \* the fetchTunnels command of Init has not answered
  fetches,         \* the fetchRequests commands under way, in dispatch order
  ticks,           \* the number of tickCmd commands under way
  replays          \* the replayRequest commands under way, in dispatch order

\* the world around the process
VARIABLES
  feed,            \* the requests the ngrok agent holds, newest first
  missed,          \* the ids of those it captured while a stored session was viewed
  faults           \* the statements on the database fail for now (full disk, lock)

cmdVars == <<ticks, replays>>

envVars == <<fetches, feed, missed, faults, cmdVars>>

engineVars == <<fReq, fChain, fQuery, fResult, fHeader, dMsg, dBody, dSize>>

searchVars == <<searchQuery, searchCursor>>

wizardVars == <<filterStep, filterInput, filterCursor, filterSelected,
                pendingFilter, filteredFields>>

\* the fields of the diff view and of the replay editor that decide the focus
modalVars == <<diffRequestB, replayEditStep, replayEditSelected, replayEditMethod,
               replayEditHeaders, replayHeaderField>>

historyVars == <<historySessions, historySelectedSess, viewingHistory, viewingSessionID>>

storeVars == <<storage, sessionID, dbSessions, dbRequests, savedReqIDs,
               dbOpen, clock, started, ret>>

appVars == <<focus, prevFocus, tunnels, requests, filteredReqs, selected, lastError,
             searchVars, wizardVars, activeFilters, diffRequestA, modalVars, historyVars,
             loading, storeVars, tunnelsPending, envVars>>

vars == <<engineVars, appVars>>

\* no call of the engine has been made, and no search is asked for
EngineIdle ==
  /\ fQuery = << >>
  /\ fResult = << >>
  /\ fHeader = << >>
  /\ dBody = << >>
  /\ dSize = << >>

\* no row of table requests
NoRow == [ID |-> ""]

\* no file has been written
NoFile == [written |-> FALSE]

\* a call of a Storage method: the request id, the numbers and the row it
\* was given, the id and body of the row a SaveRequest found under that id,
\* the error and the value it returned, the file it wrote
Call(op, id, args, req, old, err, val) ==
  [op |-> op, id |-> id, args |-> args, req |-> req, old |-> old, err |-> err, val |-> val,
   file |-> NoFile]

\* a call that wrote a file
Wrote(op, args, file) ==
  [Call(op, "", args, NoRow, NoRow, "", FALSE) EXCEPT !.file = file]

\* no call has been made
NoCall == Call("", "", << >>, NoRow, NoRow, "", FALSE)

\* the zero value Filter{}
EmptyFilter == [Field |-> << >>, Operator |-> "", Unit |-> "", Value |-> << >>,
                LogicalOperator |-> ""]

\* NewApp: the fields of a new App (stor: storage.New succeeded)
NewApp(stor) ==
  /\ focus = "FocusList" /\ prevFocus = "FocusList"
  /\ tunnels = << >>
  /\ requests = << >> /\ filteredReqs = << >> /\ selected = 0
  /\ lastError = ""
  /\ searchQuery = << >> /\ searchCursor = 0
  /\ filterStep = "FilterStepField"
  /\ filterInput = << >> /\ filterCursor = 0 /\ filterSelected = 0
  /\ activeFilters = << >> /\ pendingFilter = EmptyFilter
  /\ filteredFields = << >>
  /\ diffRequestA = ""
  /\ diffRequestB = ""
  /\ replayEditStep = "ReplayEditStepMain"
  /\ replayEditSelected = 0
  /\ replayEditMethod = << >>
  /\ replayEditHeaders = 0
  /\ replayHeaderField = ""
  /\ historySessions = << >> /\ historySelectedSess = 0
  /\ savedReqIDs = {} /\ viewingHistory = FALSE /\ viewingSessionID = 0
  /\ loading = TRUE
  /\ storage = stor
  /\ sessionID = 0

\* the application is not running: the engine is called on its own
AppIdle ==
  /\ NewApp(FALSE)
  /\ dbSessions = << >>
  /\ dbRequests = << >>
  /\ dbOpen = FALSE
  /\ clock = 0
  /\ started = {}
  /\ ret = NoCall
  /\ tunnelsPending = FALSE
  /\ fetches = << >>
  /\ ticks = 0
  /\ replays = << >>
  /\ feed = << >>
  /\ missed = {}
  /\ faults = FALSE

(***************************************************************************)
(* The filter engine applied to drawn inputs                               *)
(***************************************************************************)

\* one call of matchesAllFilters(req) with activeFilters = fChain
Match ==
  /\ Len(fResult) < MaxEvals
  /\ \E r \in matchesAllFilters(fReq, fChain) : fResult' = Append(fResult, r)
  /\ UNCHANGED <<fReq, fChain, fQuery, fHeader, dMsg, dBody, dSize, appVars>>

\* one call of getHeaderValue for the header the first filter names
Lookup ==
  /\ Len(fHeader) < MaxEvals
  /\ HasPrefix(fChain[1].Field, HeaderPrefix)
  /\ \E v \in getHeaderValue(fReq, TrimPrefix(fChain[1].Field, HeaderPrefix)) :
       fHeader' = Append(fHeader, v)
  /\ UNCHANGED <<fReq, fChain, fQuery, fResult, dMsg, dBody, dSize, appVars>>

\* chains of up to MaxChain filters on every request
InitChain ==
  /\ AppIdle
  /\ fReq \in EngineRequests
  /\ fChain \in SeqsUpTo(ChainFilters, MaxChain)
  /\ dMsg = << >>
  /\ EngineIdle

NextChain == Match

SpecChain == InitChain /\ [][NextChain]_vars

\* every single-filter chain on every request
InitFilter ==
  /\ AppIdle
  /\ fReq \in EngineRequests
  /\ fChain \in {<<f>> : f \in SingleFilters}
  /\ dMsg = << >>
  /\ EngineIdle

NextFilter == Match \/ Lookup

SpecFilter == InitFilter /\ [][NextFilter]_vars

(***************************************************************************)
(* The body decoder applied to drawn messages                              *)
(***************************************************************************)

\* Response.DecodeBody()
Decode ==
  /\ dBody = << >>
  /\ dBody' = <<DecodeBody(fReq.Response)>>
  /\ UNCHANGED <<fReq, fChain, fQuery, fResult, fHeader, dMsg, dSize, appVars>>

\* Request.ResponseSize()
Measure ==
  /\ dSize = << >>
  /\ dSize' = <<ResponseSize(fReq)>>
  /\ UNCHANGED <<fReq, fChain, fQuery, fResult, fHeader, dMsg, dBody, appVars>>

InitDecode ==
  /\ AppIdle
  /\ dMsg \in Messages
  /\ \E enc \in Encodings :
       fReq = NewRequest("m", TxtGET, TxtApiLower, 200, 0, NoHeaders, RawOf(dMsg, enc))
  /\ fChain = << >>
  /\ EngineIdle

NextDecode == Decode \/ Measure

SpecDecode == InitDecode /\ [][NextDecode]_vars

(***************************************************************************)
(* The application (package tui): App, its Update loop and its storage     *)
(*                                                                         *)
(* Rendering state (viewports, spinner, window size, lastSelectedID, the   *)
(* status message) does not influence any field below and is left out.     *)
(* The quit key ends the program and has no action.                        *)
(***************************************************************************)

\* the largest index the selection of a wizard list is moved to
MaxSelected == 1

\* the largest length of a typed text (search query, wizard input)
MaxInput == 1

\* the largest number of filters appended to activeFilters
MaxFilters == 1

OperatorsNumeric == <<">", "<", ">=", "<=">>

OperatorsString == <<"==", "!=", "match", "!match">>

TxtHeadersDot == <<72,101,97,100,101,114,115,46>>     \* "Headers."

\* the names of the header rows of filterFields, without "Headers."
HeaderNames ==
  <<
    <<65,99,99,101,112,116>>,  \* Accept
    <<65,99,99,101,112,116,45,67,104,97,114,115,101,116>>,  \* Accept-Charset
    <<65,99,99,101,112,116,45,68,97,116,101,116,105,109,101>>,  \* Accept-Datetime
    <<65,99,99,101,112,116,45,69,110,99,111,100,105,110,103>>,  \* Accept-Encoding
    <<65,99,99,101,112,116,45,76,97,110,103,117,97,103,101>>,  \* Accept-Language
    <<65,45,73,77>>,  \* A-IM
    <<65,117,116,104,111,114,105,122,97,116,105,111,110>>,  \* Authorization
    <<67,97,99,104,101,45,67,111,110,116,114,111,108>>,  \* Cache-Control
    <<67,111,110,110,101,99,116,105,111,110>>,  \* Connection
    <<67,111,110,116,101,110,116,45,76,101,110,103,116,104>>,  \* Content-Length
    <<67,111,110,116,101,110,116,45,77,68,53>>,  \* Content-MD5
    <<67,111,110,116,101,110,116,45,84,121,112,101>>,  \* Content-Type
    <<67,111,111,107,105,101>>,  \* Cookie
    <<68,97,116,101>>,  \* Date
    <<69,120,112,101,99,116>>,  \* Expect
    <<70,114,111,109>>,  \* From
    <<72,111,115,116>>,  \* Host
    <<77,97,120,45,70,111,114,119,97,114,100,115>>,  \* Max-Forwards
    <<79,114,105,103,105,110>>,  \* Origin
    <<80,114,97,103,109,97>>,  \* Pragma
    <<80,114,111,120,121,45,65,117,116,104,111,114,105,122,97,116,105,111,110>>,  \* Proxy-Authorization
    <<82,97,110,103,101>>,  \* Range
    <<82,101,102,101,114,101,114>>,  \* Referer
    <<84,69>>,  \* TE
    <<85,112,103,114,97,100,101>>,  \* Upgrade
    <<85,115,101,114,45,65,103,101,110,116>>,  \* User-Agent
    <<86,105,97>>,  \* Via
    <<87,97,114,110,105,110,103>>,  \* Warning
    <<73,102,45,77,97,116,99,104>>,  \* If-Match
    <<73,102,45,77,111,100,105,102,105,101,100,45,83,105,110,99,101>>,  \* If-Modified-Since
    <<73,102,45,78,111,110,101,45,77,97,116,99,104>>,  \* If-None-Match
    <<73,102,45,82,97,110,103,101>>,  \* If-Range
    <<73,102,45,85,110,109,111,100,105,102,105,101,100,45,83,105,110,99,101>>,  \* If-Unmodified-Since
    <<70,111,114,119,97,114,100,101,100>>,  \* Forwarded
    <<88,45,70,111,114,119,97,114,100,101,100,45,70,111,114>>,  \* X-Forwarded-For
    <<88,45,70,111,114,119,97,114,100,101,100,45,72,111,115,116>>,  \* X-Forwarded-Host
    <<88,45,70,111,114,119,97,114,100,101,100,45,80,114,111,116,111>>,  \* X-Forwarded-Proto
    <<65,99,99,101,115,115,45,67,111,110,116,114,111,108,45,82,101,113,117,101,115,116,45,72,101,97,100,101,114,115>>,  \* Access-Control-Request-Headers
    <<65,99,99,101,115,115,45,67,111,110,116,114,111,108,45,82,101,113,117,101,115,116,45,77,101,116,104,111,100>>,  \* Access-Control-Request-Method
    <<83,101,114,118,101,114>>  \* Server
  >>

\* a row of filterFields
FilterField(name, key, type, operators, units) ==
  [Name |-> name, Key |-> key, Type |-> type, Operators |-> operators, Units |-> units]

\* var filterFields
filterFields ==
  << FilterField(<<68,117,114,97,116,105,111,110>>, FieldDuration,
                 "FilterTypeNumericWithUnit", OperatorsNumeric, <<"ms", "s", "m", "h", "d">>),
     FilterField(<<80,97,116,104>>, FieldPath, "FilterTypeString", OperatorsString, << >>),
     FilterField(<<82,101,115,112,111,110,115,101,83,105,122,101>>, FieldResponseSize,
                 "FilterTypeNumericWithUnit", OperatorsNumeric, <<"b", "kb", "mb">>),
     FilterField(<<83,116,97,116,117,115,67,111,100,101>>, FieldStatus,
                 "FilterTypeString", OperatorsString, << >>) >>
  \o [i \in 1..Len(HeaderNames) |->
        FilterField(TxtHeadersDot \o HeaderNames[i], HeaderPrefix \o ToLower(HeaderNames[i]),
                    "FilterTypeString", OperatorsString, << >>)]

\* a.filteredFields = filterFields: every row, by index
AllFields == [i \in 1..Len(filterFields) |-> i]

\* does row i pass the test of updateFilteredFields
FieldListed(i, input) ==
  \/ Contains(ToLower(filterFields[i].Name), ToLower(input))
  \/ Contains(ToLower(filterFields[i].Key), ToLower(input))

RECURSIVE FieldsFrom(_, _)
FieldsFrom(i, input) ==
  IF i > Len(filterFields) THEN << >>
  ELSE (IF FieldListed(i, input) THEN <<i>> ELSE << >>) \o FieldsFrom(i + 1, input)

\* updateFilteredFields: the new value of filteredFields for a.filterInput = input
updateFilteredFields(input) ==
  IF input = << >> THEN AllFields ELSE FieldsFrom(1, input)

\* getFieldByKey: the index of the first row with that key, 0 for nil
getFieldByKey(key) ==
  LET hits == {i \in 1..Len(filterFields) : filterFields[i].Key = key}
  IN  IF hits = {} THEN 0 ELSE CHOOSE i \in hits : \A j \in hits : i <= j

\* the texts "k: v" of a header map, lower-cased
HeaderLines(h) ==
  UNION {{ToLower(k \o <<58, 32>> \o h[k][i]) : i \in 1..Len(h[k])} : k \in DOMAIN h}

\* matchesSearch without the loop over the response headers
matchesSearchRequestHeadersOnly(req, query) ==
  \/ Contains(ToLower(req.Request.Method), query)
  \/ Contains(ToLower(req.Request.URI), query)
  \/ \E status \in {Itoa(StatusCode(req))} : Contains(status, query)
  \/ \E l \in HeaderLines(req.Request.Headers) : Contains(l, query)
  \/ \E reqBody \in {DecodeBody(req.Request)} : Contains(ToLower(reqBody), query)
  \/ \E respBody \in {DecodeBody(req.Response)} : Contains(ToLower(respBody), query)

\* matchesSearch(req, query); the caller passes the lower-cased query
matchesSearch(req, query) ==
  \/ Contains(ToLower(req.Request.Method), query)
  \/ Contains(ToLower(req.Request.URI), query)
  \/ \E status \in {Itoa(StatusCode(req))} : Contains(status, query)
  \/ \E l \in HeaderLines(req.Request.Headers) : Contains(l, query)
  \/ \E l \in HeaderLines(req.Response.Headers) : Contains(l, query)
  \/ \E reqBody \in {DecodeBody(req.Request)} : Contains(ToLower(reqBody), query)
  \/ \E respBody \in {DecodeBody(req.Response)} : Contains(ToLower(respBody), query)

\* the search loop of applyFilters on one request: with an empty query every
\* request is kept, otherwise those matchesSearch accepts for the
\* lower-cased query
SearchKeeps(req, query) ==
  IF query = << >> THEN TRUE ELSE matchesSearch(req, ToLower(query))

RECURSIVE KeepFrom(_, _, _)
\* the requests of reqs from index i on that the mask keeps, in order
KeepFrom(reqs, mask, i) ==
  IF i > Len(reqs) THEN << >>
  ELSE (IF mask[i] THEN <<reqs[i]>> ELSE << >>) \o KeepFrom(reqs, mask, i + 1)

\* the results the calls of matchesAllFilters in applyFilters can return
FilterMasks(reqs, chain) ==
  {mask \in [1..Len(reqs) -> BOOLEAN] :
     \A i \in 1..Len(reqs) : mask[i] \in matchesAllFilters(reqs[i], chain)}

\* the results of matchesSearch in the second loop; query is lower-cased
SearchMask(reqs, query) == [i \in 1..Len(reqs) |-> matchesSearch(reqs[i], query)]

Max(x, y) == IF x >= y THEN x ELSE y

Min(x, y) == IF x <= y THEN x ELSE y

\* the least element of a non-empty set of numbers
Least(S) == CHOOSE i \in S : \A j \in S : i <= j

\* the end of applyFilters without the clamp
RestoreSelectionWithoutClamp(filtered, sel, selectedID, found) ==
  [filteredReqs |-> filtered,
   selected |-> IF selectedID # "" /\ found # {} THEN Least(found) - 1 ELSE sel]

\* the end of applyFilters: restore the selection by ID, or clamp it
RestoreSelection(filtered, sel, selectedID, found) ==
  [filteredReqs |-> filtered,
   selected |-> IF selectedID # "" /\ found # {} THEN Least(found) - 1
                ELSE IF sel >= Len(filtered) THEN Max(0, Len(filtered) - 1)
                ELSE sel]

\* the positions of the request with that ID
PositionsOf(filtered, selectedID) == {i \in 1..Len(filtered) : filtered[i].ID = selectedID}

\* the second loop of applyFilters (the search), with what follows it
SearchAndRestore(baseReqs, query, sel, selectedID) ==
  {RestoreSelection(filtered, sel, selectedID, PositionsOf(filtered, selectedID)) :
     filtered \in {IF query # << >>
                   THEN KeepFrom(baseReqs, SearchMask(baseReqs, ToLower(query)), 1)
                   ELSE baseReqs}}

\* applyFilters: the values of a.filteredReqs and a.selected it can leave,
\* from a.requests = reqs, a.activeFilters = chain, a.searchQuery = query,
\* a.selected = sel and a.filteredReqs = visible at the call
applyFilters(reqs, chain, query, sel, visible) ==
  UNION {SearchAndRestore(baseReqs, query, sel, selectedID) :
           baseReqs \in {IF Len(chain) > 0 THEN KeepFrom(reqs, mask, 1) ELSE reqs :
                           mask \in FilterMasks(reqs, chain)},
           selectedID \in {IF Len(visible) > 0 /\ sel < Len(visible) THEN visible[sel + 1].ID
                           ELSE ""}}

\* a row of table requests (storage.HistoryRequest) built by saveNewRequests.
\* The header maps are stored as JSON text and read back; on the ASCII
\* names and values of the requests drawn here that returns the same map.
HistoryRequest(req, session) ==
  [ID |-> req.ID, SessionID |-> session,
   Method |-> req.Request.Method, Path |-> req.Request.URI,
   StatusCode |-> StatusCode(req), DurationMS |-> req.Duration \div 1000000,
   Timestamp |-> req.Start,
   ReqHeaders |-> req.Request.Headers, ReqBody |-> DecodeBody(req.Request),
   ResHeaders |-> req.Response.Headers, ResBody |-> DecodeBody(req.Response),
   Starred |-> FALSE]

\* the ngrok.Request loadHistoricalSession builds from a stored row
HistoricalRequest(hr) ==
  [ID |-> hr.ID, Start |-> hr.Timestamp, Duration |-> hr.DurationMS * 1000000,
   Request |-> HTTPData(hr.Method, hr.Path, hr.ReqHeaders, hr.ReqBody, 0),
   Response |-> HTTPData(<< >>, << >>, hr.ResHeaders, hr.ResBody, hr.StatusCode),
   ResponseStatus |-> << >>]

\* the orders in which a query with ORDER BY key DESC can return the rows
OrderDesc(rows, key(_)) ==
  {s \in [1..Cardinality(rows) -> rows] :
     /\ \A i, j \in 1..Cardinality(rows) : i # j => s[i] # s[j]
     /\ \A i, j \in 1..Cardinality(rows) : i < j => key(s[i]) >= key(s[j])}

StartedAtOf(sess) == sess.StartedAt

TimestampOf(row) == row.Timestamp

\* GetSessions: SELECT ... FROM sessions ORDER BY started_at DESC
GetSessions(sessions) == OrderDesc(sessions, StartedAtOf)

\* GetSessionRequests: SELECT ... WHERE session_id = ? ORDER BY timestamp DESC
GetSessionRequests(rows, session) ==
  OrderDesc({r \in rows : r.SessionID = session}, TimestampOf)

\* SaveRequest as a plain INSERT into a table without a primary key
SaveRequestInsertOnly(rows, row) == rows \cup {row}

\* SaveRequest: INSERT OR REPLACE of one row (the primary key is id)
SaveRequest(rows, row) == {r \in rows : r.ID # row.ID} \cup {row}

RECURSIVE SaveAll(_, _, _, _, _)
\* the rows after the loop of saveNewRequests from index i on; ok is the
\* set of request IDs whose SaveRequest succeeds
SaveAll(rows, reqs, i, ok, session) ==
  IF i > Len(reqs) THEN rows
  ELSE SaveAll(IF reqs[i].ID \in ok THEN SaveRequest(rows, HistoryRequest(reqs[i], session))
               ELSE rows,
               reqs, i + 1, ok, session)

(***************************************************************************)
(* The environment of the application: what the ngrok agent returns, what  *)
(* the database holds at start, what the user types                        *)
(***************************************************************************)

TxtSlashA == <<47, 97>>       \* "/a"
TxtSlashB == <<47, 98>>       \* "/b"
TxtTunnel == <<116>>          \* "t"

\* GET /a 200, 1500 ms, captured at time 5
U1 == [NewRequest("u1", TxtGET, TxtSlashA, 200, 1500000000, NoHeaders, << >>)
         EXCEPT !.Start = 5]

\* POST /b 404, 900 ms, captured at time 6: no text of it holds the letter a
U2 == [NewRequest("u2", TxtPOST, TxtSlashB, 404, 900000000, NoHeaders, << >>)
         EXCEPT !.Start = 6]

\* what GET /api/requests/http returns (newest first)
FeedPayloads == {<< >>, <<U1>>, <<U2, U1>>}

\* what GET /api/tunnels returns: the PublicURL of each tunnel
TunnelPayloads == {<< >>, <<TxtTunnel>>}

\* the runes of one key message
RuneInputs == {<<97>>}        \* "a"

\* the sessions of earlier runs, each with one request (Cleanup has run:
\* no session is empty)
PastSessions == {[ID |-> 1, TunnelURL |-> TxtTunnel, StartedAt |-> 1, EndedAt |-> 2],
                 [ID |-> 2, TunnelURL |-> TxtTunnel, StartedAt |-> 2, EndedAt |-> 3]}

PastRequests ==
  {HistoryRequest([NewRequest("h1", TxtGET, TxtSlashA, 200, 5000000, NoHeaders, << >>)
                     EXCEPT !.Start = 1], 1),
   HistoryRequest([NewRequest("h2", TxtPOST, TxtSlashB, 404, 7000000, NoHeaders, << >>)
                     EXCEPT !.Start = 2], 2)}

\* the clock when the process starts; StartSession derives the session id
\* from it: later than every stored session
NewSessionID == 3

(***************************************************************************)
(* Update: one action per message the program handles                      *)
(***************************************************************************)

focusVars == <<focus, prevFocus>>

listVars == <<requests, filteredReqs, selected>>

miscVars == <<tunnels, lastError, diffRequestA, modalVars, loading, tunnelsPending, envVars>>

\* handleKeyPress reaches its own switch in these two modes only
ListMode == focus \in {"FocusList", "FocusDetailPanel"}

\* clearAll
clearAll ==
  /\ searchQuery' = << >>
  /\ searchCursor' = 0
  /\ activeFilters' = << >>
  /\ filteredReqs' = requests
  /\ selected' = 0

\* a.applyFilters() on the new values reqs, chain, query of a.requests,
\* a.activeFilters and a.searchQuery, with a.selected = sel at the call
CallApplyFilters(reqs, chain, query, sel) ==
  \E r \in applyFilters(reqs, chain, query, sel, filteredReqs) :
    /\ filteredReqs' = r.filteredReqs
    /\ selected' = r.selected

\* key "/"
KeySearch ==
  /\ ListMode
  /\ prevFocus' = focus
  /\ focus' = "FocusSearch"
  /\ searchCursor' = Len(searchQuery)
  /\ UNCHANGED <<engineVars, listVars, miscVars, searchQuery, wizardVars, activeFilters,
                 historyVars, storeVars>>

\* key "f"
KeyFilter ==
  /\ ListMode
  /\ prevFocus' = focus
  /\ focus' = "FocusFilter"
  /\ filterStep' = "FilterStepField"
  /\ filterInput' = << >>
  /\ filterCursor' = 0
  /\ filterSelected' = 0
  /\ filteredFields' = AllFields
  /\ UNCHANGED <<engineVars, listVars, miscVars, searchVars, pendingFilter, activeFilters,
                 historyVars, storeVars>>

\* key "x"
KeyClear ==
  /\ ListMode
  /\ clearAll
  /\ UNCHANGED <<engineVars, focusVars, requests, miscVars, wizardVars, historyVars, storeVars>>

\* the frame of the keys that move the selection of the request list
MoveSelection(target) ==
  /\ ListMode
  /\ selected' = target
  /\ UNCHANGED <<engineVars, focusVars, requests, filteredReqs, miscVars, searchVars,
                 wizardVars, activeFilters, historyVars, storeVars>>

\* key down / "j"
KeyDown ==
  /\ ListMode
  /\ MoveSelection(IF focus = "FocusList" /\ Len(filteredReqs) > 0
                   THEN Min(selected + 1, Len(filteredReqs) - 1) ELSE selected)

\* key up / "k"
KeyUp ==
  /\ ListMode
  /\ MoveSelection(IF focus = "FocusList" /\ Len(filteredReqs) > 0
                   THEN Max(selected - 1, 0) ELSE selected)

\* key "g"
KeyTop ==
  /\ ListMode
  /\ MoveSelection(IF focus = "FocusList" THEN 0 ELSE selected)

\* key "G"
KeyBottom ==
  /\ ListMode
  /\ MoveSelection(IF focus = "FocusList" /\ Len(filteredReqs) > 0
                   THEN Len(filteredReqs) - 1 ELSE selected)

\* key esc in the list or the detail panel
KeyEscape ==
  /\ ListMode
  /\ IF diffRequestA # ""
     THEN /\ diffRequestA' = ""
          /\ UNCHANGED <<focus, filteredReqs, selected, searchVars, activeFilters>>
     ELSE IF searchQuery # << >> \/ Len(activeFilters) > 0
     THEN /\ clearAll
          /\ UNCHANGED <<focus, diffRequestA>>
     ELSE /\ focus' = IF focus = "FocusDetailPanel" THEN "FocusList" ELSE focus
          /\ UNCHANGED <<diffRequestA, filteredReqs, selected, searchVars, activeFilters>>
  /\ UNCHANGED <<engineVars, prevFocus, requests, tunnels, lastError, loading, tunnelsPending,
                 envVars, wizardVars, modalVars, historyVars, storeVars>>

\* key tab
KeyToggle ==
  /\ ListMode
  /\ focus' = IF focus = "FocusList" THEN "FocusDetailPanel" ELSE "FocusList"
  /\ UNCHANGED <<engineVars, prevFocus, listVars, miscVars, searchVars, wizardVars,
                 activeFilters, historyVars, storeVars>>

\* the sessions of a query result other than the current one
OtherSessions(sessions) ==
  KeepFrom(sessions, [i \in 1..Len(sessions) |-> sessions[i].ID # sessionID], 1)

\* initHistoryView without its first three lines (the test of a.storage)
initHistoryViewWithoutNilTest ==
  /\ historySelectedSess' = 0
  /\ \E sessions \in GetSessions(dbSessions) :
       historySessions' = OtherSessions(sessions)

\* initHistoryView; when the query GetSessions fails the list stays
initHistoryView ==
  IF ~storage THEN UNCHANGED <<historySessions, historySelectedSess>>
  ELSE /\ historySelectedSess' = 0
       /\ IF faults THEN historySessions' = historySessions
          ELSE \E sessions \in GetSessions(dbSessions) :
                 historySessions' = OtherSessions(sessions)

\* exitHistoryView
exitHistoryView ==
  /\ viewingHistory' = FALSE
  /\ viewingSessionID' = 0

\* key "H"
KeyHistory ==
  /\ ListMode
  /\ IF viewingHistory
     THEN /\ exitHistoryView
          /\ UNCHANGED <<focusVars, historySessions, historySelectedSess>>
     ELSE /\ prevFocus' = focus
          /\ focus' = "FocusHistory"
          /\ initHistoryView
          /\ UNCHANGED <<viewingHistory, viewingSessionID>>
  /\ UNCHANGED <<engineVars, listVars, miscVars, searchVars, wizardVars, activeFilters,
                 storeVars>>

\* ---- handleSearchInput ----

SearchMode == focus = "FocusSearch"

SearchFrame ==
  UNCHANGED <<engineVars, requests, miscVars, wizardVars, activeFilters, historyVars, storeVars>>

\* enter: performSearch
SearchEnter ==
  /\ SearchMode
  /\ focus' = prevFocus
  /\ CallApplyFilters(requests, activeFilters, searchQuery, 0)
  /\ UNCHANGED <<prevFocus, searchVars>>
  /\ SearchFrame

SearchEscape ==
  /\ SearchMode
  /\ focus' = prevFocus
  /\ searchQuery' = << >>
  /\ searchCursor' = 0
  /\ CallApplyFilters(requests, activeFilters, << >>, selected)
  /\ UNCHANGED prevFocus
  /\ SearchFrame

SearchBackspace ==
  /\ SearchMode
  /\ IF Len(searchQuery) > 0 /\ searchCursor > 0
     THEN /\ searchQuery' = SliceTo(searchQuery, searchCursor - 1)
                              \o SliceFrom(searchQuery, searchCursor)
          /\ searchCursor' = searchCursor - 1
     ELSE UNCHANGED searchVars
  /\ UNCHANGED <<focusVars, filteredReqs, selected>>
  /\ SearchFrame

SearchLeft ==
  /\ SearchMode
  /\ searchCursor' = IF searchCursor > 0 THEN searchCursor - 1 ELSE searchCursor
  /\ UNCHANGED <<focusVars, filteredReqs, selected, searchQuery>>
  /\ SearchFrame

SearchRight ==
  /\ SearchMode
  /\ searchCursor' = IF searchCursor < Len(searchQuery) THEN searchCursor + 1
                     ELSE searchCursor
  /\ UNCHANGED <<focusVars, filteredReqs, selected, searchQuery>>
  /\ SearchFrame

SearchRunes ==
  /\ SearchMode
  /\ \E char \in RuneInputs :
       /\ Len(searchQuery) + Len(char) <= MaxInput
       /\ searchQuery' = SliceTo(searchQuery, searchCursor) \o char
                           \o SliceFrom(searchQuery, searchCursor)
       /\ searchCursor' = searchCursor + Len(char)
  /\ UNCHANGED <<focusVars, filteredReqs, selected>>
  /\ SearchFrame

\* ---- handleFilterInput ----

FilterMode(step) == focus = "FocusFilter" /\ filterStep = step

WizardFrame ==
  UNCHANGED <<engineVars, requests, miscVars, searchVars, historyVars, storeVars>>

\* the frame of a wizard key that moves inside the wizard
InsideWizard == UNCHANGED <<focusVars, filteredReqs, selected, activeFilters>> /\ WizardFrame

\* key up in a wizard list
WizardUp(step) ==
  /\ FilterMode(step)
  /\ filterSelected' = IF filterSelected > 0 THEN filterSelected - 1 ELSE filterSelected
  /\ UNCHANGED <<filterStep, filterInput, filterCursor, pendingFilter, filteredFields>>
  /\ InsideWizard

\* key down in a wizard list of n rows
WizardDown(step, n) ==
  /\ FilterMode(step)
  /\ filterSelected < MaxSelected
  /\ filterSelected' = IF filterSelected < n - 1 THEN filterSelected + 1 ELSE filterSelected
  /\ UNCHANGED <<filterStep, filterInput, filterCursor, pendingFilter, filteredFields>>
  /\ InsideWizard

\* handleFilterFieldInput
FieldEscape ==
  /\ FilterMode("FilterStepField")
  /\ focus' = prevFocus
  /\ filterInput' = << >>
  /\ UNCHANGED <<prevFocus, filteredReqs, selected, activeFilters, filterStep, filterCursor,
                 filterSelected, pendingFilter, filteredFields>>
  /\ WizardFrame

FieldEnter ==
  /\ FilterMode("FilterStepField")
  /\ IF Len(filteredFields) > 0 /\ filterSelected < Len(filteredFields)
     THEN /\ pendingFilter' = [pendingFilter EXCEPT
                                 !.Field = filterFields[filteredFields[filterSelected + 1]].Key]
          /\ filterStep' = "FilterStepOperator"
          /\ filterSelected' = 0
          /\ filterInput' = << >>
     ELSE UNCHANGED <<pendingFilter, filterStep, filterSelected, filterInput>>
  /\ UNCHANGED <<filterCursor, filteredFields>>
  /\ InsideWizard

FieldUp ==
  /\ FilterMode("FilterStepField")
  /\ WizardUp("FilterStepField")

FieldDown ==
  /\ FilterMode("FilterStepField")
  /\ WizardDown("FilterStepField", Len(filteredFields))

FieldBackspace ==
  /\ FilterMode("FilterStepField")
  /\ IF Len(filterInput) > 0
     THEN /\ filterInput' = SliceTo(filterInput, Len(filterInput) - 1)
          /\ filteredFields' = updateFilteredFields(filterInput')
     ELSE UNCHANGED <<filterInput, filteredFields>>
  /\ UNCHANGED <<filterStep, filterCursor, filterSelected, pendingFilter>>
  /\ InsideWizard

FieldRunes ==
  /\ FilterMode("FilterStepField")
  /\ \E char \in RuneInputs :
       /\ Len(filterInput) + Len(char) <= MaxInput
       /\ filterInput' = filterInput \o char
  /\ filteredFields' = updateFilteredFields(filterInput')
  /\ filterSelected' = 0
  /\ UNCHANGED <<filterStep, filterCursor, pendingFilter>>
  /\ InsideWizard

\* field := a.getFieldByKey(a.pendingFilter.Field)
PendingField == getFieldByKey(pendingFilter.Field)

\* handleFilterOperatorInput
OperatorEscape ==
  /\ FilterMode("FilterStepOperator")
  /\ PendingField # 0
  /\ filterStep' = "FilterStepField"
  /\ filterSelected' = 0
  /\ filteredFields' = updateFilteredFields(filterInput)
  /\ UNCHANGED <<filterInput, filterCursor, pendingFilter>>
  /\ InsideWizard

OperatorEnter ==
  /\ FilterMode("FilterStepOperator")
  /\ PendingField # 0
  /\ LET field == filterFields[PendingField] IN
       IF filterSelected < Len(field.Operators)
       THEN /\ pendingFilter' = [pendingFilter EXCEPT
                                   !.Operator = field.Operators[filterSelected + 1]]
            /\ filterSelected' = 0
            /\ IF field.Type = "FilterTypeNumericWithUnit" /\ Len(field.Units) > 0
               THEN /\ filterStep' = "FilterStepUnit"
                    /\ UNCHANGED <<filterInput, filterCursor>>
               ELSE /\ filterStep' = "FilterStepValue"
                    /\ filterInput' = << >>
                    /\ filterCursor' = 0
       ELSE UNCHANGED <<pendingFilter, filterSelected, filterStep, filterInput, filterCursor>>
  /\ UNCHANGED filteredFields
  /\ InsideWizard

OperatorUp ==
  /\ FilterMode("FilterStepOperator")
  /\ PendingField # 0
  /\ WizardUp("FilterStepOperator")

OperatorDown ==
  /\ FilterMode("FilterStepOperator")
  /\ PendingField # 0
  /\ WizardDown("FilterStepOperator", Len(filterFields[PendingField].Operators))

\* handleFilterUnitInput
UnitEscape ==
  /\ FilterMode("FilterStepUnit")
  /\ PendingField # 0
  /\ filterStep' = "FilterStepOperator"
  /\ filterSelected' = 0
  /\ UNCHANGED <<filterInput, filterCursor, pendingFilter, filteredFields>>
  /\ InsideWizard

UnitEnter ==
  /\ FilterMode("FilterStepUnit")
  /\ PendingField # 0
  /\ LET field == filterFields[PendingField] IN
       IF filterSelected < Len(field.Units)
       THEN /\ pendingFilter' = [pendingFilter EXCEPT !.Unit = field.Units[filterSelected + 1]]
            /\ filterStep' = "FilterStepValue"
            /\ filterInput' = << >>
            /\ filterCursor' = 0
       ELSE UNCHANGED <<pendingFilter, filterStep, filterInput, filterCursor>>
  /\ UNCHANGED <<filterSelected, filteredFields>>
  /\ InsideWizard

UnitUp ==
  /\ FilterMode("FilterStepUnit")
  /\ PendingField # 0
  /\ WizardUp("FilterStepUnit")

UnitDown ==
  /\ FilterMode("FilterStepUnit")
  /\ PendingField # 0
  /\ WizardDown("FilterStepUnit", Len(filterFields[PendingField].Units))

\* handleFilterValueInput
\* ValueEscape going on to the next step instead of back
ValueEscapeForward ==
  /\ FilterMode("FilterStepValue")
  /\ filterStep' = "FilterStepLogical"
  /\ filterSelected' = 0
  /\ UNCHANGED <<filterInput, filterCursor, pendingFilter, filteredFields>>
  /\ InsideWizard

ValueEscape ==
  /\ FilterMode("FilterStepValue")
  /\ filterStep' = IF PendingField # 0
                      /\ filterFields[PendingField].Type = "FilterTypeNumericWithUnit"
                   THEN "FilterStepUnit" ELSE "FilterStepOperator"
  /\ filterSelected' = 0
  /\ UNCHANGED <<filterInput, filterCursor, pendingFilter, filteredFields>>
  /\ InsideWizard

ValueEnter ==
  /\ FilterMode("FilterStepValue")
  /\ IF filterInput # << >>
     THEN /\ pendingFilter' = [pendingFilter EXCEPT !.Value = filterInput]
          /\ filterStep' = "FilterStepLogical"
          /\ filterSelected' = 0
     ELSE UNCHANGED <<pendingFilter, filterStep, filterSelected>>
  /\ UNCHANGED <<filterInput, filterCursor, filteredFields>>
  /\ InsideWizard

ValueBackspace ==
  /\ FilterMode("FilterStepValue")
  /\ IF Len(filterInput) > 0 /\ filterCursor > 0
     THEN /\ filterInput' = SliceTo(filterInput, filterCursor - 1)
                              \o SliceFrom(filterInput, filterCursor)
          /\ filterCursor' = filterCursor - 1
     ELSE UNCHANGED <<filterInput, filterCursor>>
  /\ UNCHANGED <<filterStep, filterSelected, pendingFilter, filteredFields>>
  /\ InsideWizard

ValueLeft ==
  /\ FilterMode("FilterStepValue")
  /\ filterCursor' = IF filterCursor > 0 THEN filterCursor - 1 ELSE filterCursor
  /\ UNCHANGED <<filterStep, filterInput, filterSelected, pendingFilter, filteredFields>>
  /\ InsideWizard

ValueRight ==
  /\ FilterMode("FilterStepValue")
  /\ filterCursor' = IF filterCursor < Len(filterInput) THEN filterCursor + 1
                     ELSE filterCursor
  /\ UNCHANGED <<filterStep, filterInput, filterSelected, pendingFilter, filteredFields>>
  /\ InsideWizard

ValueRunes ==
  /\ FilterMode("FilterStepValue")
  /\ \E char \in RuneInputs :
       /\ Len(filterInput) + Len(char) <= MaxInput
       /\ filterInput' = SliceTo(filterInput, filterCursor) \o char
                           \o SliceFrom(filterInput, filterCursor)
       /\ filterCursor' = filterCursor + Len(char)
  /\ UNCHANGED <<filterStep, filterSelected, pendingFilter, filteredFields>>
  /\ InsideWizard

\* handleFilterLogicalInput
LogicalEscape ==
  /\ FilterMode("FilterStepLogical")
  /\ filterStep' = "FilterStepValue"
  /\ UNCHANGED <<filterInput, filterCursor, filterSelected, pendingFilter, filteredFields>>
  /\ InsideWizard

\* enter on "Done" (0), "&&" (1) or "||" (2)
LogicalEnter ==
  /\ FilterMode("FilterStepLogical")
  /\ Len(activeFilters) < MaxFilters
  /\ CASE filterSelected = 0 ->
            /\ activeFilters' = Append(activeFilters, pendingFilter)
            /\ pendingFilter' = EmptyFilter
            /\ filterInput' = << >>
            /\ focus' = prevFocus
            /\ CallApplyFilters(requests, activeFilters', searchQuery, selected)
            /\ UNCHANGED <<filterStep, filterSelected, filteredFields>>
       [] filterSelected \in {1, 2} ->
            /\ activeFilters' =
                 Append(activeFilters,
                        [pendingFilter EXCEPT
                           !.LogicalOperator = IF filterSelected = 1 THEN "&&" ELSE "||"])
            /\ pendingFilter' = EmptyFilter
            /\ filterInput' = << >>
            /\ filterStep' = "FilterStepField"
            /\ filterSelected' = 0
            /\ filteredFields' = updateFilteredFields(filterInput')
            /\ UNCHANGED <<focus, filteredReqs, selected>>
       [] OTHER ->
            UNCHANGED <<activeFilters, pendingFilter, filterInput, focus, filterStep,
                        filterSelected, filteredFields, filteredReqs, selected>>
  /\ UNCHANGED <<prevFocus, filterCursor>>
  /\ WizardFrame

LogicalUp ==
  /\ FilterMode("FilterStepLogical")
  /\ WizardUp("FilterStepLogical")

\* options := Done, &&, ||
LogicalDown ==
  /\ FilterMode("FilterStepLogical")
  /\ WizardDown("FilterStepLogical", 3)

\* ---- handleHistoryInput ----

HistoryMode == focus = "FocusHistory"

HistoryFrame ==
  UNCHANGED <<engineVars, miscVars, searchVars, wizardVars, activeFilters, storeVars>>

HistoryEscape ==
  /\ HistoryMode
  /\ focus' = prevFocus
  /\ UNCHANGED <<prevFocus, listVars, historyVars>>
  /\ HistoryFrame

\* loadHistoricalSession; it returns when the query GetSessionRequests fails
loadHistoricalSession(session) ==
  IF ~storage \/ faults THEN UNCHANGED <<listVars, viewingHistory, viewingSessionID>>
  ELSE \E histReqs \in GetSessionRequests(dbRequests, session) :
            /\ requests' = [i \in 1..Len(histReqs) |-> HistoricalRequest(histReqs[i])]
            /\ viewingHistory' = TRUE
            /\ viewingSessionID' = session
            /\ CallApplyFilters(requests', activeFilters, searchQuery, 0)

HistoryEnter ==
  /\ HistoryMode
  /\ IF Len(historySessions) > 0
     THEN /\ loadHistoricalSession(historySessions[historySelectedSess + 1].ID)
          /\ focus' = "FocusList"
     ELSE UNCHANGED <<listVars, viewingHistory, viewingSessionID, focus>>
  /\ UNCHANGED <<prevFocus, historySessions, historySelectedSess>>
  /\ HistoryFrame

\* key up / "k"
HistoryUp ==
  /\ HistoryMode
  /\ historySelectedSess' = IF historySelectedSess > 0 THEN historySelectedSess - 1
                            ELSE historySelectedSess
  /\ UNCHANGED <<focusVars, listVars, historySessions, viewingHistory, viewingSessionID>>
  /\ HistoryFrame

\* key down / "j"
HistoryDown ==
  /\ HistoryMode
  /\ historySelectedSess' = IF historySelectedSess < Len(historySessions) - 1
                            THEN historySelectedSess + 1 ELSE historySelectedSess
  /\ UNCHANGED <<focusVars, listVars, historySessions, viewingHistory, viewingSessionID>>
  /\ HistoryFrame

\* ---- messages of the commands ----

\* StartSession: the id, made from the clock, is set before the INSERT,
\* which fails on a failing and on a closed database; ended_at stays NULL (0)
StartSession(tunnelURL) ==
  /\ sessionID' = clock
  /\ clock' = clock + 1
  /\ IF faults \/ ~dbOpen
     THEN /\ dbSessions' = dbSessions
          /\ started' = started
     ELSE /\ dbSessions' = dbSessions \cup {[ID |-> clock, TunnelURL |-> tunnelURL,
                                             StartedAt |-> clock, EndedAt |-> 0]}
          /\ started' = started \cup {clock}

\* messages.TunnelsMsg, the answer to the fetchTunnels of Init
TunnelsMsg ==
  /\ tunnelsPending
  /\ tunnelsPending' = FALSE
  /\ loading' = FALSE
  /\ \/ /\ lastError' = "err"
        /\ UNCHANGED <<tunnels, sessionID, dbSessions, clock, started>>
     \/ \E payload \in TunnelPayloads :
          /\ tunnels' = payload
          /\ lastError' = ""
          /\ IF storage /\ Len(payload) > 0 /\ sessionID = 0
             THEN StartSession(payload[1])
             ELSE UNCHANGED <<sessionID, dbSessions, clock, started>>
  /\ UNCHANGED <<engineVars, focusVars, listVars, diffRequestA, modalVars, searchVars, wizardVars,
                 activeFilters, historyVars, storage, dbRequests, savedReqIDs, dbOpen, ret,
                 envVars>>

\* saveNewRequests without the test of savedReqIDs
saveNewRequestsWithoutSkip(reqs) ==
  IF ~storage \/ sessionID = 0 THEN UNCHANGED <<savedReqIDs, dbRequests>>
  ELSE \E ok \in {IF faults THEN {} ELSE {reqs[i].ID : i \in 1..Len(reqs)}} :
         /\ savedReqIDs' = savedReqIDs \cup ok
         /\ dbRequests' = SaveAll(dbRequests, reqs, 1, ok, sessionID)

\* saveNewRequests on a.requests = reqs; ok: the ids whose SaveRequest
\* succeeds
saveNewRequests(reqs) ==
  IF ~storage \/ sessionID = 0 THEN UNCHANGED <<savedReqIDs, dbRequests>>
  ELSE \E ok \in {IF faults THEN {}
                  ELSE {reqs[i].ID : i \in 1..Len(reqs)} \ savedReqIDs} :
         /\ savedReqIDs' = savedReqIDs \cup ok
         /\ dbRequests' = SaveAll(dbRequests, reqs, 1, ok, sessionID)

\* the case messages.RequestsMsg without its test of a.viewingHistory
HandleRequestsMsgInHistoryToo(err, payload) ==
  /\ loading' = FALSE
  /\ IF err
     THEN /\ lastError' = "err"
          /\ UNCHANGED <<listVars, savedReqIDs, dbRequests>>
     ELSE /\ requests' = payload
          /\ saveNewRequests(payload)
          /\ \E r \in applyFilters(payload, activeFilters, searchQuery, selected,
                                   filteredReqs) :
               /\ filteredReqs' = r.filteredReqs
               /\ selected' = IF r.selected >= Len(r.filteredReqs)
                              THEN Max(0, Len(r.filteredReqs) - 1) ELSE r.selected
          /\ lastError' = ""
  /\ UNCHANGED <<engineVars, focusVars, tunnels, diffRequestA, modalVars, tunnelsPending, searchVars,
                 wizardVars, activeFilters, historyVars, storage, sessionID, dbSessions,
                 dbOpen, clock, started, ret, feed, missed, faults,
                 cmdVars>>

\* the case messages.RequestsMsg dropping a result that lists fewer
\* requests than the working set
HandleRequestsMsgUnlessShorter(err, payload) ==
  /\ loading' = FALSE
  /\ IF err
     THEN /\ lastError' = "err"
          /\ UNCHANGED <<listVars, savedReqIDs, dbRequests>>
     ELSE IF ~viewingHistory /\ Len(payload) >= Len(requests)
     THEN /\ requests' = payload
          /\ saveNewRequests(payload)
          /\ \E r \in applyFilters(payload, activeFilters, searchQuery, selected,
                                   filteredReqs) :
               /\ filteredReqs' = r.filteredReqs
               /\ selected' = IF r.selected >= Len(r.filteredReqs)
                              THEN Max(0, Len(r.filteredReqs) - 1) ELSE r.selected
          /\ lastError' = ""
     ELSE UNCHANGED <<listVars, lastError, savedReqIDs, dbRequests>>
  /\ UNCHANGED <<engineVars, focusVars, tunnels, diffRequestA, modalVars, tunnelsPending, searchVars,
                 wizardVars, activeFilters, historyVars, storage, sessionID, dbSessions,
                 dbOpen, clock, started, ret, feed, missed, faults,
                 cmdVars>>

\* the case that assigns msg.Requests before it looks at msg.Err
HandleRequestsMsgErrorApplied(err, payload) ==
  /\ loading' = FALSE
  /\ IF ~viewingHistory
     THEN /\ requests' = payload
          /\ saveNewRequests(payload)
          /\ \E r \in applyFilters(payload, activeFilters, searchQuery, selected,
                                   filteredReqs) :
               /\ filteredReqs' = r.filteredReqs
               /\ selected' = IF r.selected >= Len(r.filteredReqs)
                              THEN Max(0, Len(r.filteredReqs) - 1) ELSE r.selected
          /\ lastError' = IF err THEN "err" ELSE ""
     ELSE /\ lastError' = IF err THEN "err" ELSE lastError
          /\ UNCHANGED <<listVars, savedReqIDs, dbRequests>>
  /\ UNCHANGED <<engineVars, focusVars, tunnels, diffRequestA, modalVars, tunnelsPending, searchVars,
                 wizardVars, activeFilters, historyVars, storage, sessionID, dbSessions,
                 dbOpen, clock, started, ret, feed, missed, faults,
                 cmdVars>>

\* Update, case messages.RequestsMsg, on a message with Err # nil (err) or
\* with Requests = payload
HandleRequestsMsg(err, payload) ==
  /\ loading' = FALSE
  /\ IF err
     THEN /\ lastError' = "err"
          /\ UNCHANGED <<listVars, savedReqIDs, dbRequests>>
     ELSE IF ~viewingHistory
     THEN /\ requests' = payload
          /\ saveNewRequests(payload)
          /\ \E r \in applyFilters(payload, activeFilters, searchQuery, selected,
                                   filteredReqs) :
               /\ filteredReqs' = r.filteredReqs
               /\ selected' = IF r.selected >= Len(r.filteredReqs)
                              THEN Max(0, Len(r.filteredReqs) - 1) ELSE r.selected
          /\ lastError' = ""
     ELSE UNCHANGED <<listVars, lastError, savedReqIDs, dbRequests>>
  /\ UNCHANGED <<engineVars, focusVars, tunnels, diffRequestA, modalVars, tunnelsPending, searchVars,
                 wizardVars, activeFilters, historyVars, storage, sessionID, dbSessions,
                 dbOpen, clock, started, ret, feed, missed, faults,
                 cmdVars>>

\* messages.RequestsMsg, the answer to some fetchRequests (Init, every
\* tick), whatever it carries
RequestsMsg ==
  /\ \E err \in BOOLEAN, payload \in FeedPayloads : HandleRequestsMsg(err, payload)
  /\ UNCHANGED fetches

\* the engine harness is not in use
EngineUnused ==
  /\ fReq = ReqD
  /\ fChain = << >>
  /\ dMsg = << >>
  /\ EngineIdle

\* main: NewApp (storage.New succeeded) and App.Init (Cleanup has run, the
\* first fetches are under way)
Init ==
  /\ EngineUnused
  /\ NewApp(TRUE)
  /\ dbSessions = PastSessions
  /\ dbRequests = PastRequests
  /\ dbOpen = TRUE
  /\ clock = NewSessionID
  /\ started = {}
  /\ ret = NoCall
  /\ tunnelsPending = TRUE
  /\ fetches = << >>
  /\ ticks = 1
  /\ replays = << >>
  /\ feed = << >>
  /\ missed = {}
  /\ faults = FALSE

\* the keys of the list and of the detail panel
NextList ==
  \/ KeySearch \/ KeyFilter \/ KeyClear \/ KeyDown \/ KeyUp \/ KeyTop \/ KeyBottom
  \/ KeyEscape \/ KeyToggle \/ KeyHistory

\* the keys of the search input
NextSearch ==
  \/ SearchEnter \/ SearchEscape \/ SearchBackspace \/ SearchLeft \/ SearchRight
  \/ SearchRunes

\* the wizard keys that build a filter: choose, type, confirm, leave
NextWizardBuild ==
  \/ FieldEscape \/ FieldEnter \/ FieldDown \/ FieldRunes
  \/ OperatorEnter \/ OperatorDown
  \/ UnitEnter \/ UnitDown
  \/ ValueRunes \/ ValueEnter
  \/ LogicalEnter \/ LogicalDown

\* the wizard keys that go back a step or edit what was chosen
NextWizardEdit ==
  \/ FieldUp \/ FieldBackspace
  \/ OperatorEscape \/ OperatorUp
  \/ UnitEscape \/ UnitUp
  \/ ValueEscape \/ ValueBackspace \/ ValueLeft \/ ValueRight
  \/ LogicalEscape \/ LogicalUp

\* the keys of the history view
NextHistory == HistoryEscape \/ HistoryEnter \/ HistoryUp \/ HistoryDown

\* The event loop of the filtering user interface: the list, the search
\* input, the wizard building filters, the history view and the refresh
\* results, while the answer to fetchTunnels is still outstanding (no
\* session is started, nothing is saved).
Next == NextList \/ NextSearch \/ NextWizardBuild \/ NextHistory \/ RequestsMsg

Spec == Init /\ [][Next]_vars

\* The filter wizard with every key of every step, on an empty request list
NextWizard == KeyFilter \/ NextWizardBuild \/ NextWizardEdit

SpecWizard == Init /\ [][NextWizard]_vars

\* What moves the selection or changes the visible set: the navigation
\* keys, refresh results, a search, a filter built by the wizard's shortest
\* way, clear, the load of a stored session and the return to live mode
NextSelect ==
  \/ KeyDown \/ KeyUp \/ KeyTop \/ KeyBottom \/ KeyClear
  \/ RequestsMsg
  \/ KeySearch \/ SearchRunes \/ SearchEnter \/ SearchEscape
  \/ KeyFilter \/ FieldEnter \/ OperatorEnter \/ UnitEnter \/ ValueRunes \/ ValueEnter
  \/ LogicalEnter
  \/ KeyHistory \/ HistoryEnter

SpecSelect == Init /\ [][NextSelect]_vars

\* The session of a run: the tunnels answer starts it, refreshes save into
\* it, the history view reads the stored sessions
NextSession ==
  \/ TunnelsMsg \/ RequestsMsg
  \/ KeyHistory \/ NextHistory
  \/ KeyDown \/ KeyUp

SpecSession == Init /\ [][NextSession]_vars

(***************************************************************************)
(* Polling: every tick dispatches a fetchRequests command; the command     *)
(* runs beside the event loop, asks the agent at some moment and hands its *)
(* result to Update at some later moment.  Nothing orders two commands.    *)
(***************************************************************************)

MaxFetches == 2       \* fetchRequests commands under way at one time

MaxReplays == 1       \* replayRequest commands under way at one time

\* a fetchRequests command that has not called the agent yet
Running == [state |-> "running", payload |-> << >>]

\* the sequence s without its i-th element
Remove(s, i) == SubSeq(s, 1, i - 1) \o SubSeq(s, i + 1, Len(s))

\* the frame of what happens outside Update
OutsideUpdate ==
  UNCHANGED <<engineVars, focusVars, listVars, tunnels, lastError, diffRequestA, modalVars, loading,
              tunnelsPending, searchVars, wizardVars, activeFilters, historyVars,
              storeVars, faults, replays>>

\* the database starts to fail: the disk is full, another process holds
\* the lock
Break ==
  /\ storage /\ ~faults
  /\ faults' = TRUE
  /\ UNCHANGED <<engineVars, focusVars, listVars, tunnels, lastError, diffRequestA, modalVars, loading,
                 tunnelsPending, searchVars, wizardVars, activeFilters, historyVars,
                 storeVars, fetches, feed, missed, cmdVars>>

\* the database works again
Repair ==
  /\ faults
  /\ faults' = FALSE
  /\ UNCHANGED <<engineVars, focusVars, listVars, tunnels, lastError, diffRequestA, modalVars, loading,
                 tunnelsPending, searchVars, wizardVars, activeFilters, historyVars,
                 storeVars, fetches, feed, missed, cmdVars>>

\* the agent captures one more request
Capture ==
  /\ \E payload \in FeedPayloads :
       /\ Len(payload) = Len(feed) + 1
       /\ SubSeq(payload, 2, Len(payload)) = feed
       /\ feed' = payload
       /\ missed' = IF viewingHistory THEN missed \cup {payload[1].ID} ELSE missed
  /\ UNCHANGED <<fetches, ticks>>
  /\ OutsideUpdate

\* Update, case messages.TickMsg, without the next tickCmd
TickMsgOnce ==
  /\ ticks > 0
  /\ Len(fetches) < MaxFetches
  /\ fetches' = Append(fetches, Running)
  /\ ticks' = ticks - 1
  /\ UNCHANGED <<feed, missed>>
  /\ OutsideUpdate

\* Update, case messages.TickMsg: the tick that has run out is handled,
\* another fetchRequests and the next tickCmd are dispatched
TickMsg ==
  /\ ticks > 0
  /\ Len(fetches) < MaxFetches
  /\ fetches' = Append(fetches, Running)
  /\ ticks' = (ticks - 1) + 1
  /\ UNCHANGED <<feed, missed>>
  /\ OutsideUpdate

\* the function returned by fetchRequests calls client.GetRequests(50)
GetRequests ==
  /\ \E i \in 1..Len(fetches) :
       /\ fetches[i].state = "running"
       /\ \/ fetches' = [fetches EXCEPT ![i] = [state |-> "ok", payload |-> feed]]
          \/ fetches' = [fetches EXCEPT ![i] = [state |-> "err", payload |-> << >>]]
  /\ UNCHANGED <<feed, missed, ticks>>
  /\ OutsideUpdate

\* the messages.RequestsMsg of a command that has its answer reaches Update
FetchedRequestsMsg ==
  \E i \in 1..Len(fetches) :
    /\ fetches[i].state # "running"
    /\ HandleRequestsMsg(fetches[i].state = "err", fetches[i].payload)
    /\ fetches' = Remove(fetches, i)

\* main: NewApp, storage.New having succeeded or not, and App.Init: the
\* first fetchTunnels and fetchRequests are under way; the database works
InitLive ==
  /\ EngineUnused
  /\ \E stor \in BOOLEAN : NewApp(stor)
  /\ dbSessions = PastSessions
  /\ dbRequests = PastRequests
  /\ dbOpen = storage
  /\ clock = NewSessionID
  /\ started = {}
  /\ ret = NoCall
  /\ tunnelsPending = TRUE
  /\ fetches = <<Running>>
  /\ ticks = 1
  /\ replays = << >>
  /\ feed = << >>
  /\ missed = {}
  /\ faults = FALSE

\* the agent and the commands
NextPolling == Capture \/ TickMsg \/ GetRequests \/ FetchedRequestsMsg

\* A run of the program: the agent captures requests, ticks poll it, the
\* tunnels answer starts the session, the operator opens the history view,
\* loads a stored session and leaves it again.
NextLive == NextPolling \/ TunnelsMsg \/ KeyHistory \/ NextHistory

SpecLive == InitLive /\ [][NextLive]_vars

\* the same run on a database that fails at times
NextFaulty == NextLive \/ KeyToggle \/ Break \/ Repair

SpecFaulty == InitLive /\ [][NextFaulty]_vars

\* every command Update returns is run and its message handed back: the
\* tick is re-armed by each TickMsg, a command under way calls the agent
\* and the agent answers, an answer reaches Update
FairPolling ==
  /\ WF_vars(TickMsg)
  /\ WF_vars(GetRequests)
  /\ WF_vars(FetchedRequestsMsg)
  /\ WF_vars(TunnelsMsg)

\* a run left alone by the operator
NextPersist == NextPolling \/ TunnelsMsg

SpecPersist == InitLive /\ [][NextPersist]_vars /\ FairPolling

\* POST /b as the agent lists it while the upstream server has not answered:
\* no status, no duration, no response
U2Open == [NewRequest("u2", TxtPOST, TxtSlashB, 0, 0, NoHeaders, << >>)
             EXCEPT !.Start = 6]

\* the agent captures a request whose response is still to come
CaptureOpen ==
  /\ \E payload \in {<<U2Open, U1>>} :
       /\ SubSeq(payload, 2, Len(payload)) = feed
       /\ feed' = payload
       /\ missed' = IF viewingHistory THEN missed \cup {payload[1].ID} ELSE missed
  /\ UNCHANGED <<fetches, ticks>>
  /\ OutsideUpdate

\* the upstream server answers: the agent completes the entry, under the
\* same id
Respond ==
  /\ \E k \in 1..Len(feed) :
       /\ feed[k] = U2Open
       /\ feed' = [feed EXCEPT ![k] = U2]
  /\ UNCHANGED <<fetches, missed, ticks>>
  /\ OutsideUpdate

\* key "r" on a request of the list: replayRequest is dispatched
KeyReplay ==
  /\ ListMode
  /\ Len(filteredReqs) > 0 /\ selected < Len(filteredReqs)
  /\ Len(replays) < MaxReplays
  /\ replays' = Append(replays, "running")
  /\ UNCHANGED <<engineVars, focusVars, listVars, tunnels, lastError, diffRequestA, modalVars, loading,
                 tunnelsPending, searchVars, wizardVars, activeFilters, historyVars,
                 storeVars, fetches, feed, missed, faults, ticks>>

\* the function returned by replayRequest calls client.Replay
Replay ==
  /\ \E i \in 1..Len(replays) :
       /\ replays[i] = "running"
       /\ \E state \in {"ok", "err"} : replays' = [replays EXCEPT ![i] = state]
  /\ UNCHANGED <<fetches, feed, missed, ticks>>
  /\ UNCHANGED <<engineVars, focusVars, listVars, tunnels, lastError, diffRequestA, modalVars, loading,
                 tunnelsPending, searchVars, wizardVars, activeFilters, historyVars,
                 storeVars, faults>>

\* Update, case messages.ReplayMsg: the error is recorded, or another
\* fetchRequests is dispatched (the bound leaves room for the fetch of the
\* tick)
ReplayMsg ==
  /\ \E i \in 1..Len(replays) :
       /\ replays[i] # "running"
       /\ replays[i] = "ok" => Len(fetches) + 1 < MaxFetches
       /\ lastError' = IF replays[i] = "err" THEN "err" ELSE lastError
       /\ fetches' = IF replays[i] = "ok" THEN Append(fetches, Running) ELSE fetches
       /\ replays' = Remove(replays, i)
  /\ UNCHANGED <<engineVars, focusVars, listVars, tunnels, diffRequestA, modalVars, loading,
                 tunnelsPending, searchVars, wizardVars, activeFilters, historyVars,
                 storeVars, feed, missed, faults, ticks>>

\* every command Update returns is run and its message handed back
FairReplay ==
  /\ WF_vars(TickMsg)
  /\ WF_vars(GetRequests)
  /\ WF_vars(FetchedRequestsMsg)

\* the whole of the polling: ticks, fetches and replays, in live mode and
\* while a stored session is viewed; the tunnels do not answer
NextReplay ==
  \/ TickMsg \/ GetRequests \/ FetchedRequestsMsg
  \/ KeyReplay \/ Replay \/ ReplayMsg
  \/ KeyHistory \/ HistoryEnter \/ HistoryEscape

\* main as in InitLive, the store open, the agent holding u1 already
InitReplay ==
  /\ EngineUnused
  /\ NewApp(TRUE)
  /\ dbSessions = PastSessions
  /\ dbRequests = PastRequests
  /\ dbOpen = TRUE
  /\ clock = NewSessionID
  /\ started = {}
  /\ ret = NoCall
  /\ tunnelsPending = TRUE
  /\ fetches = <<Running>>
  /\ ticks = 1
  /\ replays = << >>
  /\ feed = <<U1>>
  /\ missed = {}
  /\ faults = FALSE

SpecReplay == InitReplay /\ [][NextReplay]_vars /\ FairReplay

\* the run as far as saving goes: the feed also lists requests under way,
\* the database fails at times, the operator does nothing
NextSaving == NextPersist \/ CaptureOpen \/ Respond \/ Break \/ Repair

SpecSaving == InitLive /\ [][NextSaving]_vars

(***************************************************************************)
(* The replay editor and the diff view.  Of the editor the model keeps the *)
(* step, the selected row, the method and the number of headers; the text  *)
(* being typed (replayEditInput, replayEditCursor, the path, the body and  *)
(* the header texts) decides no step and is left out, so the keys that     *)
(* only edit that text (runes, backspace, left, right, and up, down, enter *)
(* in the body) change nothing here.  The keys up and down in the list of  *)
(* methods and the deletion of a header are not modelled.                  *)
(***************************************************************************)
MaxHeaders == 1       \* headers of the edited request

TxtPUT == <<80,85,84>>                        \* "PUT"
TxtDELETE == <<68,69,76,69,84,69>>            \* "DELETE"
TxtPATCH == <<80,65,84,67,72>>                \* "PATCH"
TxtHEAD == <<72,69,65,68>>                    \* "HEAD"
TxtOPTIONS == <<79,80,84,73,79,78,83>>        \* "OPTIONS"
TxtHost == <<104,111,115,116>>                \* "host"
TxtContentLength == <<99,111,110,116,101,110,116,45,108,101,110,103,116,104>>  \* "content-length"
TxtXForwarded == <<120,45,102,111,114,119,97,114,100,101,100>>                 \* "x-forwarded"

httpMethods == <<TxtGET, TxtPOST, TxtPUT, TxtDELETE, TxtPATCH, TxtHEAD, TxtOPTIONS>>

\* indexOf(slice, item), 0 when the item is missing
indexOf(slice, item) ==
  IF \E i \in 1..Len(slice) : slice[i] = item
  THEN (CHOOSE i \in 1..Len(slice) :
          slice[i] = item /\ \A j \in 1..(i - 1) : slice[j] # item) - 1
  ELSE 0

\* the number of entries initReplayEdit copies from the headers of req
CopiedHeaders(req) ==
  LET h == req.Request.Headers
      kept == {k \in DOMAIN h : /\ ToLower(k) # TxtHost
                                /\ ToLower(k) # TxtContentLength
                                /\ ~HasPrefix(ToLower(k), TxtXForwarded)}
  IN  Cardinality(UNION {{<<k, i>> : i \in 1..Len(h[k])} : k \in kept})

initReplayEdit(req) ==
  /\ replayEditStep' = "ReplayEditStepMain"
  /\ replayEditSelected' = 0
  /\ replayEditMethod' = req.Request.Method
  /\ replayEditHeaders' = CopiedHeaders(req)

\* what the keys of the list leave alone when they open the editor or the diff
OpensModal ==
  UNCHANGED <<engineVars, listVars, tunnels, lastError, loading, tunnelsPending, envVars,
              searchVars, wizardVars, activeFilters, historyVars, storeVars>>

\* key "R"
KeyReplayEdit ==
  /\ ListMode
  /\ IF Len(filteredReqs) > 0 /\ selected < Len(filteredReqs)
     THEN /\ initReplayEdit(filteredReqs[selected + 1])
          /\ prevFocus' = focus
          /\ focus' = "FocusReplayEdit"
     ELSE UNCHANGED <<focusVars, replayEditStep, replayEditSelected, replayEditMethod,
                      replayEditHeaders>>
  /\ UNCHANGED <<diffRequestA, diffRequestB, replayHeaderField>>
  /\ OpensModal

\* key "d"
KeyDiff ==
  /\ ListMode
  /\ IF Len(filteredReqs) > 0 /\ selected < Len(filteredReqs)
     THEN LET req == filteredReqs[selected + 1] IN
            IF diffRequestA = ""
            THEN /\ diffRequestA' = req.ID
                 /\ UNCHANGED <<focusVars, diffRequestB>>
            ELSE IF diffRequestA = req.ID
            THEN /\ diffRequestA' = ""
                 /\ UNCHANGED <<focusVars, diffRequestB>>
            ELSE /\ diffRequestB' = req.ID
                 /\ prevFocus' = focus
                 /\ focus' = "FocusDiff"
                 /\ UNCHANGED diffRequestA
     ELSE UNCHANGED <<focusVars, diffRequestA, diffRequestB>>
  /\ UNCHANGED <<replayEditStep, replayEditSelected, replayEditMethod, replayEditHeaders,
                 replayHeaderField>>
  /\ OpensModal

\* ---- handleDiffInput ----

DiffEscape ==
  /\ focus = "FocusDiff"
  /\ diffRequestA' = ""
  /\ diffRequestB' = ""
  /\ focus' = prevFocus
  /\ UNCHANGED <<prevFocus, replayEditStep, replayEditSelected, replayEditMethod,
                 replayEditHeaders, replayHeaderField>>
  /\ OpensModal

\* ---- handleReplayEditInput ----

ReplayEditMode(step) == focus = "FocusReplayEdit" /\ replayEditStep = step

\* what a key of the editor leaves alone when it stays in the editor
InsideReplayEdit ==
  UNCHANGED <<engineVars, focusVars, listVars, tunnels, lastError, diffRequestA, diffRequestB,
              loading, tunnelsPending, envVars, searchVars, wizardVars, activeFilters,
              historyVars, storeVars>>

\* what a key of the editor leaves alone when it closes the editor
LeavesReplayEdit ==
  UNCHANGED <<engineVars, prevFocus, listVars, tunnels, diffRequestA, diffRequestB, loading,
              tunnelsPending, fetches, feed, missed, faults, ticks, searchVars, wizardVars,
              activeFilters, historyVars, storeVars, modalVars>>

\* handleReplayEditMain
ReplayMainEscape ==
  /\ ReplayEditMode("ReplayEditStepMain")
  /\ focus' = prevFocus
  /\ UNCHANGED <<lastError, replays>>
  /\ LeavesReplayEdit

\* sendEditedRequest: the command it returns answers like a replayRequest
\* command, with an ErrorMsg (handled as a ReplayMsg with an error is) or
\* with a ReplayMsg without error
sendEditedRequest ==
  /\ focus' = prevFocus
  /\ IF Len(tunnels) = 0 \/ tunnels[1] = << >>
     THEN /\ lastError' = "err"
          /\ UNCHANGED replays
     ELSE /\ replays' = Append(replays, "running")
          /\ UNCHANGED lastError
  /\ LeavesReplayEdit

\* enter on Method (0), Path (1), Headers (2), Body (3)
ReplayMainOpen ==
  /\ ReplayEditMode("ReplayEditStepMain")
  /\ replayEditSelected \in 0..3
  /\ replayEditStep' = CASE replayEditSelected = 0 -> "ReplayEditStepMethod"
                         [] replayEditSelected = 1 -> "ReplayEditStepPath"
                         [] replayEditSelected = 2 -> "ReplayEditStepHeaders"
                         [] replayEditSelected = 3 -> "ReplayEditStepBody"
  /\ replayEditSelected' = CASE replayEditSelected = 0 -> indexOf(httpMethods, replayEditMethod)
                             [] replayEditSelected = 2 -> 0
                             [] OTHER -> replayEditSelected
  /\ UNCHANGED <<replayEditMethod, replayEditHeaders, replayHeaderField>>
  /\ InsideReplayEdit

\* enter on Send (4)
ReplayMainSend ==
  /\ ReplayEditMode("ReplayEditStepMain")
  /\ replayEditSelected = 4
  /\ Len(tunnels) > 0 /\ tunnels[1] # << >> => Len(replays) < MaxReplays
  /\ sendEditedRequest

\* enter on Cancel (5)
ReplayMainCancel ==
  /\ ReplayEditMode("ReplayEditStepMain")
  /\ replayEditSelected = 5
  /\ focus' = prevFocus
  /\ UNCHANGED <<lastError, replays>>
  /\ LeavesReplayEdit

\* up in a menu of the editor
ReplayEditUp(step) ==
  /\ ReplayEditMode(step)
  /\ replayEditSelected' = IF replayEditSelected > 0 THEN replayEditSelected - 1
                           ELSE replayEditSelected
  /\ UNCHANGED <<replayEditStep, replayEditMethod, replayEditHeaders, replayHeaderField>>
  /\ InsideReplayEdit

\* down in a menu of n rows of the editor
ReplayEditDown(step, n) ==
  /\ ReplayEditMode(step)
  /\ replayEditSelected' = IF replayEditSelected < n - 1 THEN replayEditSelected + 1
                           ELSE replayEditSelected
  /\ UNCHANGED <<replayEditStep, replayEditMethod, replayEditHeaders, replayHeaderField>>
  /\ InsideReplayEdit

ReplayMainUp == ReplayEditUp("ReplayEditStepMain")

ReplayMainDown == ReplayEditDown("ReplayEditStepMain", 6)

\* back to the main menu of the editor, on the row given
BackToMain(row) ==
  /\ replayEditStep' = "ReplayEditStepMain"
  /\ replayEditSelected' = row
  /\ UNCHANGED <<replayEditHeaders, replayHeaderField>>
  /\ InsideReplayEdit

\* handleReplayEditMethod
ReplayMethodEscape ==
  /\ ReplayEditMode("ReplayEditStepMethod")
  /\ UNCHANGED replayEditMethod
  /\ BackToMain(0)

ReplayMethodEnter ==
  /\ ReplayEditMode("ReplayEditStepMethod")
  /\ replayEditMethod' = IF replayEditSelected < Len(httpMethods)
                         THEN httpMethods[replayEditSelected + 1] ELSE replayEditMethod
  /\ BackToMain(0)

\* handleReplayEditPath
ReplayPathEscape ==
  /\ ReplayEditMode("ReplayEditStepPath")
  /\ UNCHANGED replayEditMethod
  /\ BackToMain(1)

ReplayPathEnter ==
  /\ ReplayEditMode("ReplayEditStepPath")
  /\ UNCHANGED replayEditMethod
  /\ BackToMain(1)

\* handleReplayEditHeaders: the list holds each header, [Add New] and [Done]
ReplayHeadersEscape ==
  /\ ReplayEditMode("ReplayEditStepHeaders")
  /\ UNCHANGED replayEditMethod
  /\ BackToMain(2)

ReplayHeadersEnter ==
  /\ ReplayEditMode("ReplayEditStepHeaders")
  /\ IF replayEditSelected < replayEditHeaders
     THEN /\ replayHeaderField' = "key"
          /\ replayEditStep' = "ReplayEditStepHeaderEdit"
          /\ UNCHANGED <<replayEditSelected, replayEditHeaders>>
     ELSE IF replayEditSelected = replayEditHeaders
     THEN /\ replayEditHeaders < MaxHeaders
          /\ replayEditHeaders' = replayEditHeaders + 1
          /\ replayHeaderField' = "key"
          /\ replayEditStep' = "ReplayEditStepHeaderEdit"
          /\ UNCHANGED replayEditSelected
     ELSE /\ replayEditStep' = "ReplayEditStepMain"
          /\ replayEditSelected' = 2
          /\ UNCHANGED <<replayEditHeaders, replayHeaderField>>
  /\ UNCHANGED replayEditMethod
  /\ InsideReplayEdit

ReplayHeadersUp == ReplayEditUp("ReplayEditStepHeaders")

ReplayHeadersDown == ReplayEditDown("ReplayEditStepHeaders", replayEditHeaders + 2)

\* handleReplayEditHeaderEdit
ReplayHeaderEditEscape ==
  /\ ReplayEditMode("ReplayEditStepHeaderEdit")
  /\ replayEditStep' = "ReplayEditStepHeaders"
  /\ UNCHANGED <<replayEditSelected, replayEditMethod, replayEditHeaders, replayHeaderField>>
  /\ InsideReplayEdit

ReplayHeaderEditEnter ==
  /\ ReplayEditMode("ReplayEditStepHeaderEdit")
  /\ IF replayHeaderField = "key"
     THEN /\ replayHeaderField' = "value"
          /\ UNCHANGED replayEditStep
     ELSE /\ replayEditStep' = "ReplayEditStepHeaders"
          /\ UNCHANGED replayHeaderField
  /\ UNCHANGED <<replayEditSelected, replayEditMethod, replayEditHeaders>>
  /\ InsideReplayEdit

\* handleReplayEditBody
ReplayBodyEscape ==
  /\ ReplayEditMode("ReplayEditStepBody")
  /\ UNCHANGED replayEditMethod
  /\ BackToMain(3)

\* tab confirms the body
ReplayBodyTab ==
  /\ ReplayEditMode("ReplayEditStepBody")
  /\ UNCHANGED replayEditMethod
  /\ BackToMain(3)

\* the key esc, in whatever mode it is pressed
EscapeKey ==
  \/ KeyEscape
  \/ SearchEscape
  \/ FieldEscape \/ OperatorEscape \/ UnitEscape \/ ValueEscape \/ LogicalEscape
  \/ HistoryEscape
  \/ DiffEscape
  \/ ReplayMainEscape \/ ReplayMethodEscape \/ ReplayPathEscape \/ ReplayHeadersEscape
  \/ ReplayHeaderEditEscape \/ ReplayBodyEscape

\* a refresh arrives: the agent answers with u2 and u1, or not at all
Refresh ==
  /\ \E err \in BOOLEAN : HandleRequestsMsg(err, <<U2, U1>>)
  /\ UNCHANGED fetches

\* the keys that open a mode, the keys that move on inside it and the key
\* esc, with the refreshes arriving in between; the tunnels do not answer
NextModal ==
  \/ Refresh
  \/ KeyToggle \/ KeyDown
  \/ KeySearch
  \/ KeyFilter \/ FieldEnter \/ OperatorEnter \/ UnitEnter \/ ValueRunes \/ ValueEnter
  \/ KeyHistory \/ HistoryEnter
  \/ KeyDiff
  \/ KeyReplayEdit
  \/ ReplayMainOpen \/ ReplayMainSend \/ ReplayMainCancel \/ ReplayMainUp \/ ReplayMainDown
  \/ ReplayMethodEnter
  \/ ReplayPathEnter
  \/ ReplayHeadersEnter \/ ReplayHeadersUp \/ ReplayHeadersDown
  \/ ReplayHeaderEditEnter
  \/ ReplayBodyTab
  \/ EscapeKey

\* main, storage.New having failed (the program runs without its store),
\* and App.Init: the first fetchTunnels is under way
InitModal ==
  /\ EngineUnused
  /\ NewApp(FALSE)
  /\ dbSessions = PastSessions
  /\ dbRequests = PastRequests
  /\ dbOpen = FALSE
  /\ clock = NewSessionID
  /\ started = {}
  /\ ret = NoCall
  /\ tunnelsPending = TRUE
  /\ fetches = << >>
  /\ ticks = 1
  /\ replays = << >>
  /\ feed = << >>
  /\ missed = {}
  /\ faults = FALSE

SpecModal == InitModal /\ [][NextModal]_vars

(***************************************************************************)
(* internal/storage on its own: the exported methods of Storage called in  *)
(* any order on one database.  Times are counted in days; a timestamp is   *)
(* compared as a number.  The foreign key of requests.session_id is        *)
(* declared but never switched on (no PRAGMA foreign_keys, a plain file    *)
(* path as data source), so SQLite does not enforce it.  The database is   *)
(* healthy here: a statement fails only when the handle has been closed.   *)
(***************************************************************************)

MaxClock == 3         \* the clock values 1..MaxClock: MaxClock - 1 sessions

\* the arguments Cleanup is called with: with two request ids a keepCount
\* of 2 keeps every request
KeepDaysInputs == {0, 1}

KeepCountInputs == {0, 1, 2}

TxtA == <<97>>        \* "a"
TxtB == <<98>>        \* "b"

ErrNoActiveSession == "no active session"

ErrNoRows == "sql: no rows in result set"

ErrClosed == "sql: database is closed"

RequestIDs == {"r1", "r2"}

\* a storage.HistoryRequest as its caller builds it
StoreInput(id, body, timestamp, session) ==
  [ID |-> id, SessionID |-> session, Method |-> TxtGET, Path |-> TxtSlashA,
   StatusCode |-> 200, DurationMS |-> 1, Timestamp |-> timestamp,
   ReqHeaders |-> NoHeaders, ReqBody |-> body, ResHeaders |-> NoHeaders,
   ResBody |-> << >>, Starred |-> FALSE]

\* r1 with body "a" captured on day 1, r1 with body "b" and r2, both
\* captured on day 2
SaveInputs(session) ==
  {StoreInput("r1", TxtA, 1, session), StoreInput("r1", TxtB, 2, session),
   StoreInput("r2", TxtA, 2, session)}

\* SELECT ... FROM requests WHERE id = ?: the row, or NoRow
RowOf(rows, id) ==
  IF \E r \in rows : r.ID = id THEN CHOOSE r \in rows : r.ID = id ELSE NoRow

\* the id and the request body of a row, for the call record
Brief(row) == IF row = NoRow THEN NoRow ELSE [ID |-> row.ID, ReqBody |-> row.ReqBody]

\* EndSession: UPDATE sessions SET ended_at = now WHERE id = ?
EndSessionUpdate(sessions, id, now) ==
  {IF sess.ID = id THEN [sess EXCEPT !.EndedAt = now] ELSE sess : sess \in sessions}

\* ToggleStar that stars and never unstars
ToggleStarUpdateSetOnly(rows, id) ==
  {IF r.ID = id THEN [r EXCEPT !.Starred = TRUE] ELSE r : r \in rows}

\* ToggleStar: UPDATE requests SET starred = NOT starred WHERE id = ?
ToggleStarUpdate(rows, id) ==
  {IF r.ID = id THEN [r EXCEPT !.Starred = ~r.Starred] ELSE r : r \in rows}

\* DeleteRequest: DELETE FROM requests WHERE id = ?
DeleteRequestUpdate(rows, id) == {r \in rows : r.ID # id}

\* Cleanup whose subquery keeps the keepCount newest rows, starred or not
CleanupRequestsCountingStarred(rows, cutoff, keepCount) ==
  {rows \ {r \in rows : /\ ~r.Starred
                        /\ r.Timestamp < cutoff
                        /\ r \notin {o[i] : i \in 1..Min(keepCount, Len(o))}}
     : o \in OrderDesc(rows, TimestampOf)}

\* Cleanup, first statement: the tables of requests it can leave.  o is an
\* order in which the subquery (non-starred, ORDER BY timestamp DESC) can
\* return its rows; LIMIT keeps the first keepCount of them
CleanupRequests(rows, cutoff, keepCount) ==
  {rows \ {r \in rows : /\ ~r.Starred
                        /\ r.Timestamp < cutoff
                        /\ r \notin {o[i] : i \in 1..Min(keepCount, Len(o))}}
     : o \in OrderDesc({r \in rows : ~r.Starred}, TimestampOf)}

\* Cleanup that drops the sessions without a non-starred request
CleanupSessionsUnstarredOnly(sessions, rows) ==
  {sess \in sessions : \E r \in rows : r.SessionID = sess.ID /\ ~r.Starred}

\* Cleanup, second statement: DELETE FROM sessions WHERE id NOT IN
\* (SELECT DISTINCT session_id FROM requests)
CleanupSessions(sessions, rows) ==
  {sess \in sessions : \E r \in rows : r.SessionID = sess.ID}

\* the application does not run
StoreFrame ==
  UNCHANGED <<engineVars, focus, prevFocus, tunnels, requests, filteredReqs, selected,
              lastError, searchVars, wizardVars, activeFilters, diffRequestA, modalVars,
              historyVars, loading, storage, savedReqIDs, tunnelsPending, envVars>>

\* storage.New in a new process, the one before having exited or been killed
New ==
  /\ sessionID' = 0
  /\ dbOpen' = TRUE
  /\ started' = {}
  /\ ret' = Call("New", "", << >>, NoRow, NoRow, "", FALSE)
  /\ UNCHANGED <<dbSessions, dbRequests, clock>>
  /\ StoreFrame

\* Storage.StartSession(tunnelURL); the INSERT succeeds on an open handle
CallStartSession ==
  /\ clock < MaxClock
  /\ StartSession(TxtTunnel)
  /\ dbOpen => clock \in started'
  /\ ret' = Call("StartSession", "", <<clock>>, NoRow, NoRow,
                 IF clock \in started' THEN "" ELSE ErrClosed, FALSE)
  /\ UNCHANGED <<dbRequests, dbOpen>>
  /\ StoreFrame

\* Storage.EndSession()
EndSession ==
  /\ dbSessions' = IF sessionID # 0 /\ dbOpen
                   THEN EndSessionUpdate(dbSessions, sessionID, clock) ELSE dbSessions
  /\ ret' = Call("EndSession", "", << >>, NoRow, NoRow,
                 IF sessionID # 0 /\ ~dbOpen THEN ErrClosed ELSE "", FALSE)
  /\ UNCHANGED <<sessionID, dbRequests, dbOpen, clock, started>>
  /\ StoreFrame

\* Storage.Close(): EndSession (its error is dropped), then db.Close
Close ==
  /\ dbSessions' = IF sessionID # 0 /\ dbOpen
                   THEN EndSessionUpdate(dbSessions, sessionID, clock) ELSE dbSessions
  /\ dbOpen' = FALSE
  /\ ret' = Call("Close", "", << >>, NoRow, NoRow, "", FALSE)
  /\ UNCHANGED <<sessionID, dbRequests, clock, started>>
  /\ StoreFrame

\* Storage.SaveRequest(req) for a req of inputs
SaveRequestCall(inputs) ==
  /\ \E req \in inputs :
       \E old \in {Brief(RowOf(dbRequests, req.ID))} :
         \/ /\ sessionID = 0
            /\ ret' = Call("SaveRequest", req.ID, << >>, req, old, ErrNoActiveSession, FALSE)
            /\ UNCHANGED dbRequests
         \/ /\ sessionID # 0 /\ ~dbOpen
            /\ ret' = Call("SaveRequest", req.ID, << >>, req, old, ErrClosed, FALSE)
            /\ UNCHANGED dbRequests
         \/ /\ sessionID # 0 /\ dbOpen
            /\ ret' = Call("SaveRequest", req.ID, << >>, req, old, "", FALSE)
            /\ dbRequests' = SaveRequest(dbRequests, [req EXCEPT !.SessionID = sessionID])
  /\ UNCHANGED <<sessionID, dbSessions, dbOpen, clock, started>>

CallSaveRequest ==
  /\ SaveRequestCall(SaveInputs(sessionID))
  /\ StoreFrame

\* Storage.ToggleStar(requestID)
ToggleStar ==
  /\ \E id \in RequestIDs :
       \E old \in {RowOf(dbRequests, id)} :
         IF ~dbOpen
         THEN /\ ret' = Call("ToggleStar", id, << >>, NoRow, NoRow, ErrClosed, FALSE)
              /\ UNCHANGED dbRequests
         ELSE IF old = NoRow
         THEN /\ ret' = Call("ToggleStar", id, << >>, NoRow, NoRow, ErrNoRows, FALSE)
              /\ UNCHANGED dbRequests
         ELSE /\ ret' = Call("ToggleStar", id, << >>, NoRow, NoRow, "", ~old.Starred)
              /\ dbRequests' = ToggleStarUpdate(dbRequests, id)
  /\ UNCHANGED <<sessionID, dbSessions, dbOpen, clock, started>>
  /\ StoreFrame

\* Storage.IsStarred(requestID): a bool and no error
IsStarred ==
  /\ \E id \in RequestIDs :
       \E old \in {RowOf(dbRequests, id)} :
         ret' = Call("IsStarred", id, << >>, NoRow, NoRow, "",
                     IF dbOpen /\ old # NoRow THEN old.Starred ELSE FALSE)
  /\ UNCHANGED <<sessionID, dbSessions, dbRequests, dbOpen, clock, started>>
  /\ StoreFrame

\* Storage.DeleteRequest(requestID)
DeleteRequest ==
  /\ \E id \in RequestIDs :
       /\ ret' = Call("DeleteRequest", id, << >>, NoRow, NoRow,
                      IF dbOpen THEN "" ELSE ErrClosed, FALSE)
       /\ dbRequests' = IF dbOpen THEN DeleteRequestUpdate(dbRequests, id) ELSE dbRequests
  /\ UNCHANGED <<sessionID, dbSessions, dbOpen, clock, started>>
  /\ StoreFrame

\* Storage.DeleteSession(sessionID): both DELETEs in one transaction
DeleteSession ==
  /\ \E sess \in 1..MaxClock :
       /\ ret' = Call("DeleteSession", "", <<sess>>, NoRow, NoRow,
                      IF dbOpen THEN "" ELSE ErrClosed, FALSE)
       /\ dbRequests' = IF dbOpen THEN {r \in dbRequests : r.SessionID # sess}
                        ELSE dbRequests
       /\ dbSessions' = IF dbOpen THEN {s \in dbSessions : s.ID # sess} ELSE dbSessions
  /\ UNCHANGED <<sessionID, dbOpen, clock, started>>
  /\ StoreFrame

\* Storage.Cleanup(keepDays, keepCount); the call record holds the cutoff,
\* keepCount and the numbers of requests and of sessions deleted
Cleanup ==
  /\ \E keepDays \in KeepDaysInputs, keepCount \in KeepCountInputs :
       IF ~dbOpen
       THEN /\ ret' = Call("Cleanup", "", <<clock - keepDays, keepCount, 0, 0>>, NoRow, NoRow,
                           ErrClosed, FALSE)
            /\ UNCHANGED <<dbRequests, dbSessions>>
       ELSE \E rows \in CleanupRequests(dbRequests, clock - keepDays, keepCount) :
              /\ dbRequests' = rows
              /\ dbSessions' = CleanupSessions(dbSessions, rows)
              /\ ret' = Call("Cleanup", "",
                             <<clock - keepDays, keepCount,
                               Cardinality(dbRequests) - Cardinality(rows),
                               Cardinality(dbSessions) - Cardinality(dbSessions')>>,
                             NoRow, NoRow, "", FALSE)
  /\ UNCHANGED <<sessionID, dbOpen, clock, started>>
  /\ StoreFrame

\* an empty database (first run), opened by storage.New
InitStore ==
  /\ EngineUnused
  /\ NewApp(TRUE)
  /\ dbSessions = {}
  /\ dbRequests = {}
  /\ dbOpen = TRUE
  /\ clock = 1
  /\ started = {}
  /\ ret = NoCall
  /\ tunnelsPending = FALSE
  /\ fetches = << >>
  /\ ticks = 0
  /\ replays = << >>
  /\ feed = << >>
  /\ missed = {}
  /\ faults = FALSE

NextStore ==
  \/ New \/ CallStartSession \/ EndSession \/ Close \/ CallSaveRequest
  \/ ToggleStar \/ IsStarred \/ DeleteRequest \/ DeleteSession \/ Cleanup

SpecStore == InitStore /\ [][NextStore]_vars

(***************************************************************************)
(* encoding/json on strings, as json.MarshalIndent writes them and         *)
(* json.Unmarshal reads them back                                          *)
(***************************************************************************)

\* a continuation byte of UTF-8
IsCont(s, i) == i <= Len(s) /\ s[i] \in 128..191

\* utf8.DecodeRuneInString at s[i]: the length of the well-formed sequence
\* that starts there, 0 when there is none
RuneLen(s, i) ==
  LET c == s[i]
      second == IF i < Len(s) THEN s[i + 1] ELSE 0
  IN  CASE c < 128 -> 1
        [] c \in 194..223 /\ IsCont(s, i + 1) -> 2
        [] c = 224 /\ second \in 160..191 /\ IsCont(s, i + 2) -> 3
        [] c \in (225..236) \cup {238, 239} /\ IsCont(s, i + 1) /\ IsCont(s, i + 2) -> 3
        [] c = 237 /\ second \in 128..159 /\ IsCont(s, i + 2) -> 3
        [] c = 240 /\ second \in 144..191 /\ IsCont(s, i + 2) /\ IsCont(s, i + 3) -> 4
        [] c \in 241..243 /\ IsCont(s, i + 1) /\ IsCont(s, i + 2) /\ IsCont(s, i + 3) -> 4
        [] c = 244 /\ second \in 128..143 /\ IsCont(s, i + 2) /\ IsCont(s, i + 3) -> 4
        [] OTHER -> 0

\* the digit of "0123456789abcdef"
HexDigit(v) == IF v < 10 THEN 48 + v ELSE 87 + v

\* the value of a hexadecimal digit
HexValue(c) == IF c \in 48..57 THEN c - 48 ELSE IF c \in 97..102 THEN c - 87 ELSE c - 55

\* \u00XX
EscapeByte(c) == <<92, 117, 48, 48, HexDigit(c \div 16), HexDigit(c % 16)>>

\* the escape of U+FFFD, written for a byte that is not UTF-8
EscapeBadByte == <<92, 117, 102, 102, 102, 100>>

RECURSIVE EncodeFrom(_, _)
\* the text between the quotes for s[i..], HTML escaping being on
EncodeFrom(s, i) ==
  IF i > Len(s) THEN << >>
  ELSE LET c == s[i]
           n == RuneLen(s, i)
       IN  CASE c = 34 \/ c = 92 -> <<92, c>> \o EncodeFrom(s, i + 1)
             [] c = 8  -> <<92, 98>> \o EncodeFrom(s, i + 1)
             [] c = 12 -> <<92, 102>> \o EncodeFrom(s, i + 1)
             [] c = 10 -> <<92, 110>> \o EncodeFrom(s, i + 1)
             [] c = 13 -> <<92, 114>> \o EncodeFrom(s, i + 1)
             [] c = 9  -> <<92, 116>> \o EncodeFrom(s, i + 1)
             [] c < 32 \/ c \in {38, 60, 62} -> EscapeByte(c) \o EncodeFrom(s, i + 1)
             [] c >= 128 /\ n = 0 -> EscapeBadByte \o EncodeFrom(s, i + 1)
             [] c = 226 /\ n = 3 /\ s[i + 1] = 128 /\ s[i + 2] \in {168, 169}
                  -> <<92, 117, 50, 48, 50, HexDigit(s[i + 2] - 160)>> \o EncodeFrom(s, i + 3)
             [] OTHER -> SubSeq(s, i, i + n - 1) \o EncodeFrom(s, i + n)

\* json.Marshal of a string: the text between the quotes
EncodeJSONString(s) == EncodeFrom(s, 1)

\* utf8.AppendRune for a code point below 0x10000
EncodeRune(r) ==
  IF r < 128 THEN <<r>>
  ELSE IF r < 2048 THEN <<192 + (r \div 64), 128 + (r % 64)>>
  ELSE <<224 + (r \div 4096), 128 + ((r \div 64) % 64), 128 + (r % 64)>>

RECURSIVE DecodeFrom(_, _)
\* json.Unmarshal of the text between the quotes, from t[i] on
DecodeFrom(t, i) ==
  IF i > Len(t) THEN << >>
  ELSE IF t[i] # 92 THEN <<t[i]>> \o DecodeFrom(t, i + 1)
  ELSE LET e == t[i + 1]
       IN  CASE e = 98  -> <<8>> \o DecodeFrom(t, i + 2)
             [] e = 102 -> <<12>> \o DecodeFrom(t, i + 2)
             [] e = 110 -> <<10>> \o DecodeFrom(t, i + 2)
             [] e = 114 -> <<13>> \o DecodeFrom(t, i + 2)
             [] e = 116 -> <<9>> \o DecodeFrom(t, i + 2)
             [] e = 117 -> EncodeRune(HexValue(t[i + 2]) * 4096 + HexValue(t[i + 3]) * 256
                                      + HexValue(t[i + 4]) * 16 + HexValue(t[i + 5]))
                             \o DecodeFrom(t, i + 6)
             [] OTHER -> <<e>> \o DecodeFrom(t, i + 2)

DecodeJSONString(t) == DecodeFrom(t, 1)

(***************************************************************************)
(* internal/storage/export.go.  A file is kept as the value json.Marshal   *)
(* was given, each string in it as the text written between the quotes;    *)
(* a time is written and read back unchanged.  Writing the file succeeds.  *)
(***************************************************************************)

MaxExport == 2        \* the length of requestIDs

TxtQuoteLt == <<34, 60>>      \* a quote and "<"
TxtBinary == <<31, 255>>      \* two bytes of a compressed body, the second not UTF-8

ErrNoRequests == "no requests to export"
ErrSessionNotFound == "session not found: sql: no rows in result set"

\* r1 with body "a", r2 with a quote and "<" in its body, r3 with a binary
\* body; r2 and r3 captured on the same day
ExportInputs(session) ==
  {StoreInput("r1", TxtA, 1, session), StoreInput("r2", TxtQuoteLt, 2, session),
   StoreInput("r3", TxtBinary, 2, session)}

\* the values of requestIDs: up to MaxExport of r1, r2, r3, repeats allowed
ExportIDs == {<< >>} \cup SeqsUpTo({"r1", "r2", "r3"}, MaxExport)

\* a header map with its keys and values as written
ExportHeaders(h) ==
  [ek \in {EncodeJSONString(k) : k \in DOMAIN h} |->
     LET k == CHOOSE k \in DOMAIN h : EncodeJSONString(k) = ek
     IN  [i \in 1..Len(h[k]) |-> EncodeJSONString(h[k][i])]]

\* ExportRequest{...} built from a row, as written
ExportRequest(req) ==
  [id |-> req.ID,
   method |-> EncodeJSONString(req.Method), path |-> EncodeJSONString(req.Path),
   status_code |-> req.StatusCode, duration_ms |-> req.DurationMS,
   timestamp |-> req.Timestamp,
   request |-> [headers |-> ExportHeaders(req.ReqHeaders),
                body |-> EncodeJSONString(req.ReqBody)],
   response |-> [headers |-> ExportHeaders(req.ResHeaders),
                 body |-> EncodeJSONString(req.ResBody)],
   starred |-> req.Starred]

RECURSIVE ExportedUntilMissing(_, _, _)
\* the loop of ExportRequests with break in place of continue
ExportedUntilMissing(rows, ids, i) ==
  IF i > Len(ids) \/ RowOf(rows, ids[i]) = NoRow THEN << >>
  ELSE <<ExportRequest(RowOf(rows, ids[i]))>> \o ExportedUntilMissing(rows, ids, i + 1)

RECURSIVE Exported(_, _, _)
\* the loop of ExportRequests from ids[i] on: an id whose QueryRow fails is
\* skipped
Exported(rows, ids, i) ==
  IF i > Len(ids) THEN << >>
  ELSE (IF RowOf(rows, ids[i]) = NoRow THEN << >>
        ELSE <<ExportRequest(RowOf(rows, ids[i]))>>) \o Exported(rows, ids, i + 1)

\* Storage.ExportRequests(requestIDs, outputPath)
ExportRequests ==
  /\ \E ids \in ExportIDs :
       IF ids = << >>
       THEN ret' = Call("ExportRequests", "", ids, NoRow, NoRow, ErrNoRequests, FALSE)
       ELSE \E reqs \in {Exported(IF dbOpen THEN dbRequests ELSE {}, ids, 1)} :
              ret' = Wrote("ExportRequests", ids, [written |-> TRUE, requests |-> reqs])
  /\ UNCHANGED <<sessionID, dbSessions, dbRequests, dbOpen, clock, started>>
  /\ StoreFrame

\* Storage.ExportSessionToJSON(sessionID, outputPath)
ExportSessionToJSON ==
  /\ \E id \in 1..MaxClock :
       IF ~dbOpen \/ ~\E sess \in dbSessions : sess.ID = id
       THEN ret' = Call("ExportSessionToJSON", "", <<id>>, NoRow, NoRow,
                        ErrSessionNotFound, FALSE)
       ELSE \E sess \in {s \in dbSessions : s.ID = id},
               reqs \in GetSessionRequests(dbRequests, id) :
              ret' = Wrote("ExportSessionToJSON", <<id>>,
                           [written |-> TRUE, id |-> sess.ID,
                            tunnel_url |-> EncodeJSONString(sess.TunnelURL),
                            started_at |-> sess.StartedAt, ended_at |-> sess.EndedAt,
                            requests |-> [i \in 1..Len(reqs) |->
                                            ExportRequest(reqs[i])]])
  /\ UNCHANGED <<sessionID, dbSessions, dbRequests, dbOpen, clock, started>>
  /\ StoreFrame

\* Storage.SaveRequest(req) with the requests drawn for the exports
SaveForExport ==
  /\ SaveRequestCall(ExportInputs(sessionID))
  /\ StoreFrame

\* sessions are started, requests saved and starred, and exports written
NextExport ==
  \/ CallStartSession \/ SaveForExport \/ ToggleStar
  \/ ExportRequests \/ ExportSessionToJSON

SpecExport == InitStore /\ [][NextExport]_vars

(***************************************************************************)
(* The search applied to drawn requests and queries                        *)
(***************************************************************************)

TxtQBang == <<81, 33>>        \* "Q!"
TxtServer == <<83>>           \* "S"
TxtNgx == <<78>>              \* "N"

\* POST /API 404 with the request body "Q!" and the response header S: N
ReqE == [ReqB EXCEPT !.ID = "e", !.Request.Raw = TxtQBang,
                     !.Response.Headers = (TxtServer :> <<TxtNgx>>)]

SearchRequests == {ReqA, ReqB, ReqC, ReqD, ReqE}

\* "", get, GET, Post, /api, API/X, 404, 0, "accept: x", "ACCEPT: A",
\* "t: x", hello, HELLO, q!, "s: n", "S: N", !!, zz
SearchQueries ==
  {<< >>, <<103,101,116>>, TxtGET, <<80,111,115,116>>, TxtApiLower, <<65,80,73,47,88>>,
   <<52,48,52>>, <<48>>, <<97,99,99,101,112,116,58,32,120>>,
   <<65,67,67,69,80,84,58,32,65>>, <<116,58,32,120>>, <<104,101,108,108,111>>,
   <<72,69,76,76,79>>, <<113,33>>, <<115,58,32,110>>, <<83,58,32,78>>, <<33,33>>,
   <<122,122>>}

\* the search loop of applyFilters decides whether fReq stays visible
Search ==
  /\ fResult = << >>
  /\ fResult' = <<SearchKeeps(fReq, fQuery)>>
  /\ UNCHANGED <<fReq, fChain, fQuery, fHeader, dMsg, dBody, dSize, appVars>>

InitSearch ==
  /\ AppIdle
  /\ fReq \in SearchRequests
  /\ fQuery \in SearchQueries
  /\ fChain = << >>
  /\ dMsg = << >>
  /\ fResult = << >> /\ fHeader = << >> /\ dBody = << >> /\ dSize = << >>

NextSearchLoop == Search

SpecSearch == InitSearch /\ [][NextSearchLoop]_vars

(***************************************************************************)
(* A request of the live feed saved by saveNewRequests, read back by       *)
(* loadHistoricalSession in the history view, and both given to the search *)
(* and to the filters.  The driver returns a stored time and a stored text *)
(* as they were written.                                                   *)
(***************************************************************************)

\* "HTTP/1.1 200 OK\r\n\r\nnull" in standard base64
RawNull == <<83,70,82,85,85,67,56,120,76,106,69,103,77,106,65,119,73,69,57,76,
             68,81,111,78,67,109,53,49,98,71,119,61>>

TxtNull == <<110,117,108,108>>     \* "null"

\* GET /api 200, 1500 ms, response body "null", captured at time 7
ReqN == [NewRequest("n", TxtGET, TxtApiLower, 200, 1500000000, NoHeaders, RawNull)
           EXCEPT !.Start = 7]

\* as ReqA, taking 1500.5 ms
ReqF == [ReqA EXCEPT !.ID = "f", !.Duration = 1500500000]

LiveRequests == {ReqA, ReqC, ReqD, ReqE, ReqF, ReqN}

\* "", get, 404, hello, q!, "s: n", !!, null, zz
ReloadQueries ==
  {<< >>, <<103,101,116>>, <<52,48,52>>, <<104,101,108,108,111>>, <<113,33>>,
   <<115,58,32,110>>, <<33,33>>, TxtNull, <<122,122>>}

\* status == 200, status == 0, method == GET, header.accept match x,
\* duration > 1.5 s, duration >= 1 s, response_size >= 5 b, response_size < 1 kb
ReloadChains ==
  {<<NewFilter(FieldStatus, "==", "", <<50,48,48>>, "")>>,
   <<NewFilter(FieldStatus, "==", "", <<48>>, "")>>,
   <<NewFilter(FieldMethod, "==", "", TxtGET, "")>>,
   <<NewFilter(FieldHeaderAccept, "match", "", <<120>>, "")>>,
   <<NewFilter(FieldDuration, ">", "s", <<49,46,53>>, "")>>,
   <<NewFilter(FieldDuration, ">=", "s", <<49>>, "")>>,
   <<NewFilter(FieldResponseSize, ">=", "b", <<53>>, "")>>,
   <<NewFilter(FieldResponseSize, "<", "kb", <<49>>, "")>>}

ReloadFrame ==
  UNCHANGED <<focusVars, tunnels, lastError, diffRequestA, modalVars, loading, tunnelsPending,
              envVars, searchVars, wizardVars, activeFilters, historySessions,
              historySelectedSess, storage, sessionID, dbSessions, dbOpen, clock,
              started, ret>>

\* the refresh that lists fReq: saveNewRequests stores it
SaveLive ==
  /\ sessionID # 0
  /\ dbRequests = {}
  /\ saveNewRequests(<<fReq>>)
  /\ UNCHANGED <<engineVars, listVars, viewingHistory, viewingSessionID>>
  /\ ReloadFrame

\* Enter in the history view on the session the request was saved under
LoadSaved ==
  /\ dbRequests # {}
  /\ ~viewingHistory
  /\ loadHistoricalSession(sessionID)
  /\ UNCHANGED <<engineVars, savedReqIDs, dbRequests>>
  /\ ReloadFrame

\* the search loop of applyFilters on the live and on the loaded request
SearchBoth ==
  /\ viewingHistory
  /\ fResult = << >>
  /\ fResult' = <<SearchKeeps(fReq, fQuery), SearchKeeps(requests[1], fQuery)>>
  /\ UNCHANGED <<fReq, fChain, fQuery, fHeader, dMsg, dBody, dSize, appVars>>

\* matchesAllFilters on the live and on the loaded request
MatchBoth ==
  /\ viewingHistory
  /\ fResult = << >>
  /\ \E live \in {matchesAllFilters(fReq, fChain)},
        loaded \in {matchesAllFilters(requests[1], fChain)} :
       fResult' = <<live, loaded>>
  /\ UNCHANGED <<fReq, fChain, fQuery, fHeader, dMsg, dBody, dSize, appVars>>

\* a new process on an empty database, awaiting the tunnels
InitReload ==
  /\ NewApp(TRUE)
  /\ fReq \in LiveRequests
  /\ fQuery \in ReloadQueries
  /\ fChain \in ReloadChains
  /\ dMsg = << >>
  /\ fResult = << >> /\ fHeader = << >> /\ dBody = << >> /\ dSize = << >>
  /\ dbSessions = {}
  /\ dbRequests = {}
  /\ dbOpen = TRUE
  /\ clock = 1
  /\ started = {}
  /\ ret = NoCall
  /\ tunnelsPending = TRUE
  /\ fetches = << >>
  /\ ticks = 0
  /\ replays = << >>
  /\ feed = <<fReq>>
  /\ missed = {}
  /\ faults = FALSE

NextReload == TunnelsMsg \/ SaveLive \/ LoadSaved \/ SearchBoth \/ MatchBoth

SpecReload == InitReload /\ [][NextReload]_vars

(***************************************************************************)
(* Claims                                                                  *)
(***************************************************************************)

RECURSIVE FoldOutcomes(_, _, _)
\* the left-to-right fold over the first n filters, defined from its last
\* step: fold(n) = fold(n-1) combined with eval(f[n]) by the operator of f[n-1]
FoldOutcomes(req, chain, n) ==
  IF n = 1 THEN matchesFilter(req, chain[1])
  ELSE {IF chain[n - 1].LogicalOperator = "||" THEN a \/ b ELSE a /\ b :
          a \in FoldOutcomes(req, chain, n - 1), b \in matchesFilter(req, chain[n])}

\* the chain [status==200 && method==GET || status==500]
IsExampleChain(chain) ==
  /\ Len(chain) = 3
  /\ chain[1] = NewFilter(FieldStatus, "==", "", <<50,48,48>>, "&&")
  /\ chain[2] = NewFilter(FieldMethod, "==", "", TxtGET, "||")
  /\ chain[3].Field = FieldStatus /\ chain[3].Value = <<53,48,48>>

\* C1: every result of matchesAllFilters is the strict left-to-right fold of
\* the per-filter results, each step combined by the LogicalOperator of the
\* previous filter (OR for "||", AND otherwise); the chain
\* [status==200 AND method==GET OR status==500] is false for (404, POST) and
\* true for (500, POST).
C1_LeftFold ==
  \A i \in 1..Len(fResult) :
    /\ Len(fChain) >= 1 => {fResult[i]} = FoldOutcomes(fReq, fChain, Len(fChain))
    /\ IsExampleChain(fChain) /\ fReq = ReqB => fResult[i] = FALSE
    /\ IsExampleChain(fChain) /\ fReq = ReqC => fResult[i] = TRUE

\* C1 witness: the example chain has been evaluated on the (500, POST) request
C1_Witness == IsExampleChain(fChain) /\ fReq = ReqC /\ Len(fResult) > 0

\* search(filter(working set)): the requests of reqs, in order, that the
\* chain keeps and that match the query (the empty query matches all)
VisibleSets(reqs, chain, query) ==
  {KeepFrom(reqs, [i \in 1..Len(reqs) |-> mask[i] /\ matchesSearch(reqs[i], ToLower(query))], 1)
     : mask \in FilterMasks(reqs, chain)}

\* C2: in every state reachable through the event loop the visible set
\* (filteredReqs) is search(filter(working set)) for the current
\* activeFilters and the current searchQuery, in the order of the working
\* set; with no filter and no query it is the working set itself.
C2_VisibleSetInvariant ==
  /\ filteredReqs \in VisibleSets(requests, activeFilters, searchQuery)
  /\ activeFilters = << >> /\ searchQuery = << >> => filteredReqs = requests

\* strings.ToUpper on ASCII text
ToUpper(s) == [i \in 1..Len(s) |-> IF s[i] >= 97 /\ s[i] <= 122 THEN s[i] - 32 ELSE s[i]]

\* the "key: value" renderings of the headers of one message
KeyValueTexts(h) ==
  UNION {{k \o <<58, 32>> \o h[k][i] : i \in 1..Len(h[k])} : k \in DOMAIN h}

\* the texts of a request a search looks into
SearchedTexts(req) ==
  {req.Request.Method, req.Request.URI, Itoa(StatusCode(req)),
   DecodeBody(req.Request), DecodeBody(req.Response)}
    \cup KeyValueTexts(req.Request.Headers) \cup KeyValueTexts(req.Response.Headers)

\* C11: the search keeps every request for the empty query; for a non-empty
\* query it keeps a request iff the lower-cased query is a substring of the
\* lower-cased method, path, decimal status code, some request or response
\* header rendered "key: value", decoded request body or decoded response
\* body; the upper-cased and the lower-cased query give the same result.
C11_SearchContract ==
  \A i \in 1..Len(fResult) :
    /\ fQuery = << >> => fResult[i]
    /\ fQuery # << >> =>
         (fResult[i] <=> \E t \in SearchedTexts(fReq) : Contains(ToLower(t), ToLower(fQuery)))
    /\ fResult[i] = SearchKeeps(fReq, ToUpper(fQuery))
    /\ fResult[i] = SearchKeeps(fReq, ToLower(fQuery))
    /\ matchesSearch(fReq, << >>)

\* a query in capitals found in a response header only, the search has run
C11_Witness ==
  /\ fResult = <<TRUE>>
  /\ fReq = ReqE
  /\ fQuery = <<83,58,32,78>>


\* the string operators as the claim states them
ClaimedStringOp(v, op, t) ==
  CASE op = "=="     -> ToLower(v) = ToLower(t)
    [] op = "!="     -> ToLower(v) # ToLower(t)
    [] op = "match"  -> \E i \in 0..Len(v) : \E j \in i..Len(v) :
                          ToLower(SubSeq(v, i + 1, j)) = ToLower(t)
    [] OTHER         -> ~\E i \in 0..Len(v) : \E j \in i..Len(v) :
                          ToLower(SubSeq(v, i + 1, j)) = ToLower(t)

\* the chain under evaluation is the single filter on field with a string operator
IsSingleStringFilter(field) ==
  /\ Len(fChain) = 1
  /\ fChain[1].Field = field
  /\ fChain[1].Operator \in StringOps

\* C3: on a path filter (a string field) == holds iff lower(v) = lower(t),
\* != is its negation, match holds iff lower(t) is a substring of lower(v),
\* and !match is its negation.
C3_CaseInsensitiveOps ==
  \A i \in 1..Len(fResult) :
    IsSingleStringFilter(FieldPath) =>
      fResult[i] = ClaimedStringOp(fReq.Request.URI, fChain[1].Operator, fChain[1].Value)

\* C4: a single-filter chain on field method is the string predicate over the
\* request's HTTP method, whether equality is read with or without letter case.
C4_MethodFilter ==
  \A i \in 1..Len(fResult) :
    IsSingleStringFilter(FieldMethod) =>
      fResult[i] \in
        {ClaimedStringOp(fReq.Request.Method, fChain[1].Operator, fChain[1].Value),
         compareStringOp(fReq.Request.Method, fChain[1].Operator, fChain[1].Value)}

\* the chain under evaluation is one filter on a numeric field
IsSingleNumericFilter ==
  /\ Len(fChain) = 1
  /\ fChain[1].Field \in {FieldDuration, FieldResponseSize}

\* C5: a filter on duration or response_size whose Value is not a number is
\* false for every request, operator and unit.
C5_FailClosed ==
  \A i \in 1..Len(fResult) :
    IsSingleNumericFilter /\ fChain[1].Value \in NonNumericValues => fResult[i] = FALSE

\* C5 witness: duration <= "abc" has been evaluated on the 0 ms request
C5_Witness ==
  /\ Len(fResult) > 0
  /\ fReq = ReqD
  /\ fChain[1] = NewFilter(FieldDuration, "<=", "ms", <<97,98,99>>, "")

\* twice the value of a drawn decimal literal
TwiceOf(v) ==
  CASE v = <<49>> -> 2
    [] v = <<49,46,53>> -> 3
    [] v = <<48,46,53>> -> 1
    [] v = <<50>> -> 4
    [] v = <<53>> -> 10
    [] v = <<49,101,49>> -> 20

\* milliseconds per duration unit and bytes per size unit, as the claim lists them
ClaimedFactor(unit) ==
  CASE unit = "ms" -> 1
    [] unit = "s" -> 1000
    [] unit = "m" -> 60000
    [] unit = "h" -> 3600000
    [] unit = "d" -> 86400000
    [] unit = "b" -> 1
    [] unit = "kb" -> 1024
    [] unit = "mb" -> 1048576

IntCompare(a, op, b) ==
  CASE op = ">" -> a > b
    [] op = "<" -> a < b
    [] op = ">=" -> a >= b
    [] op = "<=" -> a <= b

\* C6: a duration filter compares the request's duration in ms with the
\* literal times 1, 1000, 60000, 3600000, 86400000 (ms, s, m, h, d); a
\* response_size filter compares the body's bytes with the literal times 1,
\* 1024, 1048576 (b, kb, mb); duration > 1 s matches 1500 ms and not 900 ms.
\* (Both sides are doubled: the literals are multiples of one half.)
C6_UnitConversion ==
  \A i \in 1..Len(fResult) :
    /\ /\ IsSingleNumericFilter
       /\ fChain[1].Operator \in NumericOps
       /\ fChain[1].Value \in DecimalValues
       /\ fChain[1].Field = FieldDuration
       /\ fChain[1].Unit \in DurationUnits
       => fResult[i] = IntCompare(fReq.Duration \div 500000, fChain[1].Operator,
                                  TwiceOf(fChain[1].Value) * ClaimedFactor(fChain[1].Unit))
    /\ /\ IsSingleNumericFilter
       /\ fChain[1].Operator \in NumericOps
       /\ fChain[1].Value \in DecimalValues
       /\ fChain[1].Field = FieldResponseSize
       /\ fChain[1].Unit \in SizeUnits
       => fResult[i] = IntCompare(2 * Len(DecodeBody(fReq.Response)), fChain[1].Operator,
                                  TwiceOf(fChain[1].Value) * ClaimedFactor(fChain[1].Unit))
    /\ fChain = <<NewFilter(FieldDuration, ">", "s", <<49>>, "")>> =>
         /\ fReq = ReqA => fResult[i] = TRUE
         /\ fReq = ReqB => fResult[i] = FALSE

\* C6 witness: duration > 1 s has matched the 1500 ms request
C6_Witness ==
  /\ fChain = <<NewFilter(FieldDuration, ">", "s", <<49>>, "")>>
  /\ fReq = ReqA
  /\ Len(fResult) > 0 /\ fResult[1] = TRUE

\* the request has no header whose name is name, whatever the letter case
LacksHeader(req, name) ==
  \A k \in DOMAIN req.Request.Headers : ToLower(k) # ToLower(name)

\* C7: on a request without the named header, header.<name> == "" matches
\* and header.<name> != "" does not.
C7_MissingHeaderIsEmpty ==
  \A i \in 1..Len(fResult) :
    /\ Len(fChain) = 1
    /\ HasPrefix(fChain[1].Field, HeaderPrefix)
    /\ LacksHeader(fReq, TrimPrefix(fChain[1].Field, HeaderPrefix))
    /\ fChain[1].Value = << >>
    => /\ fChain[1].Operator = "==" => fResult[i] = TRUE
       /\ fChain[1].Operator = "!=" => fResult[i] = FALSE

\* C7 witness: header.accept == "" has matched the request without headers
C7_Witness ==
  /\ fChain = <<NewFilter(FieldHeaderAccept, "==", "", << >>, "")>>
  /\ fReq = ReqB
  /\ Len(fResult) > 0 /\ fResult[1] = TRUE

\* C8: the header lookup is a function of the request and the name: two
\* lookups of the same header on the same request return the same value,
\* also with two keys that differ only in letter case.
C8_LookupDeterministic ==
  \A i \in 1..Len(fHeader) : \A j \in 1..Len(fHeader) : fHeader[i] = fHeader[j]

\* the positions (0-based) at which sep occurs in msg
Occurrences(msg, sep) ==
  {p \in 0..Len(msg) : p + Len(sep) <= Len(msg) /\ \A k \in 1..Len(sep) : msg[p + k] = sep[k]}

Smallest(S) == CHOOSE p \in S : \A q \in S : p <= q

\* the part of msg that follows the occurrence of a separator of length n at p
After(msg, p, n) == [k \in 1..(Len(msg) - p - n) |-> msg[p + n + k]]

RECURSIVE Strip(_)
\* msg without its leading and trailing white space
Strip(msg) ==
  IF msg = << >> THEN msg
  ELSE IF IsSpace(msg[1]) THEN Strip(Tail(msg))
  ELSE IF IsSpace(msg[Len(msg)]) THEN Strip(SubSeq(msg, 1, Len(msg) - 1))
  ELSE msg

\* the body as the claim states it: what follows the earliest blank line
ClaimedBody(msg) ==
  LET cr == Occurrences(msg, CRLFCRLF)
      lf == Occurrences(msg, LFLF)
  IN  CASE cr = {} /\ lf = {} -> msg
        [] cr # {} /\ (lf = {} \/ Smallest(cr) < Smallest(lf)) -> After(msg, Smallest(cr), 4)
        [] OTHER -> After(msg, Smallest(lf), 2)

\* the body as amended: what follows the first \r\n\r\n when there is one,
\* else what follows the first \n\n, white space removed at both ends
AmendedBody(msg) ==
  LET cr == Occurrences(msg, CRLFCRLF)
      lf == Occurrences(msg, LFLF)
  IN  CASE cr # {} -> Strip(After(msg, Smallest(cr), 4))
        [] lf # {} -> Strip(After(msg, Smallest(lf), 2))
        [] OTHER -> msg

\* raw holds a byte of neither base64 alphabet (nor padding, nor a line break)
HasForeignByte(raw) ==
  \E i \in 1..Len(raw) :
    ~(\/ raw[i] >= 65 /\ raw[i] <= 90
      \/ raw[i] >= 97 /\ raw[i] <= 122
      \/ raw[i] >= 48 /\ raw[i] <= 57
      \/ raw[i] \in {43, 47, 45, 95, 61, 10, 13})

\* the raw value is the base64 encoding (in one of the alphabets) of dMsg
IsEncoded ==
  \/ fReq.Response.Raw = Base64Encode(dMsg, FALSE)
  \/ fReq.Response.Raw = Base64Encode(dMsg, TRUE)

\* C9 as stated: the size is 0 whenever the response body is not base64.
C9_SizeZeroOnDecodeFailure ==
  dSize # << >> /\ HasForeignByte(fReq.Response.Raw) => dSize[1] = 0

\* C9 as amended: the value compared by a response_size filter is the byte
\* length of the body DecodeBody yields: of the trimmed body segment of the
\* decoded message, and of the raw value itself when it is not base64.
C9_SizeOfBodyOrRaw ==
  dSize # << >> =>
    /\ IsEncoded => dSize[1] = Len(AmendedBody(dMsg))
    /\ HasForeignByte(fReq.Response.Raw) => dSize[1] = Len(fReq.Response.Raw)

\* C9 witness: the size of a non-base64 body has been measured and is not 0
C9_Witness ==
  dSize # << >> /\ HasForeignByte(fReq.Response.Raw) /\ dSize[1] > 0

\* C10 as stated: the body is exactly what follows the earliest of the two
\* separators, the whole decoded content without one, the raw value verbatim
\* when it is not base64.
C10_EarliestSeparatorExact ==
  dBody # << >> =>
    /\ IsEncoded => dBody[1] = ClaimedBody(dMsg)
    /\ HasForeignByte(fReq.Response.Raw) => dBody[1] = fReq.Response.Raw

\* C10 as amended: the body is what follows the first \r\n\r\n of the
\* decoded message when it has one, otherwise what follows its first \n\n,
\* in both cases with leading and trailing white space removed; the whole
\* decoded content without a separator; the raw value verbatim when it is
\* not base64.
C10_CrlfFirstTrimmed ==
  dBody # << >> =>
    /\ IsEncoded => dBody[1] = AmendedBody(dMsg)
    /\ HasForeignByte(fReq.Response.Raw) => dBody[1] = fReq.Response.Raw

\* C10 witness: a message with \n\n before \r\n\r\n and a body with white
\* space at its ends has been decoded from base64
C10_Witness ==
  /\ dBody # << >>
  /\ IsEncoded
  /\ Occurrences(dMsg, CRLFCRLF) # {} /\ Occurrences(dMsg, LFLF) # {}
  /\ Smallest(Occurrences(dMsg, LFLF)) < Smallest(Occurrences(dMsg, CRLFCRLF))
  /\ AmendedBody(dMsg) # After(dMsg, Smallest(Occurrences(dMsg, CRLFCRLF)), 4)

\* the rows of table requests with the id
RowsOf(rows, id) == {r \in rows : r.ID = id}

\* C12: SaveRequest is an idempotent upsert keyed by request ID: the table
\* never holds two rows of one ID, and after a successful SaveRequest the
\* only row of that ID is the one just saved while every other row is as it
\* was (saving r1 with body a, then r1 with body b, leaves exactly one r1 row,
\* with body b).
C12_Upsert ==
  /\ [](\A id \in RequestIDs : Cardinality(RowsOf(dbRequests, id)) <= 1)
  /\ [][ret'.op = "SaveRequest" /\ ret'.err = "" =>
          /\ RowsOf(dbRequests', ret'.id) = {ret'.req}
          /\ dbRequests' \ {ret'.req} = dbRequests \ RowsOf(dbRequests, ret'.id)
          /\ (TxtA \in {r.ReqBody : r \in RowsOf(dbRequests, "r1")} /\ ret'.req.ReqBody = TxtB
                => {r.ReqBody : r \in RowsOf(dbRequests', "r1")} = {TxtB})]_vars

\* r1 was stored with body a and has just been saved again with body b
C12_Witness ==
  /\ ret.op = "SaveRequest" /\ ret.err = ""
  /\ ret.old # NoRow /\ ret.old.ReqBody = TxtA
  /\ ret.req.ID = "r1" /\ ret.req.ReqBody = TxtB
  /\ RowsOf(dbRequests, "r1") = {ret.req}

\* the session Storage.sessionID names is stored and has not ended
HasOpenSession == \E sess \in dbSessions : sess.ID = sessionID /\ sess.EndedAt = 0

\* C13: SaveRequest called while the store has no open session (none was
\* started, or Close has ended it) fails with NoActiveSession and leaves the
\* sessions and requests tables unchanged.
C13_NoSessionFails ==
  [][ret'.op = "SaveRequest" /\ ~HasOpenSession =>
       /\ ret'.err = ErrNoActiveSession
       /\ UNCHANGED <<dbSessions, dbRequests>>]_vars

\* C14: once a request is stored, every later store operation leaves all of
\* its fields but Starred as they are, for as long as the row exists.
C14_StoredFieldsImmutable ==
  [][\A r \in dbRequests : \A q \in RowsOf(dbRequests', r.ID) :
       [q EXCEPT !.Starred = r.Starred] = r]_vars

\* C15: among the sessions this process started at most one has EndedAt unset.
C15_OneOpenSession ==
  Cardinality({sess \in dbSessions : sess.ID \in started /\ sess.EndedAt = 0}) <= 1

\* C16: referential integrity: the session_id of every stored request names
\* exactly one row of table sessions.
C16_ReferentialIntegrity ==
  \A r \in dbRequests : Cardinality({sess \in dbSessions : sess.ID = r.SessionID}) = 1

\* C17: ToggleStar(id) on a stored request succeeds, flips the Starred flag of
\* that row only, returns the new flag and changes nothing else; a second
\* ToggleStar(id) would restore the table; IsStarred(id) on a stored request
\* returns the stored flag and changes nothing.
C17_ToggleStar ==
  [][/\ (ret'.op = "ToggleStar" /\ dbOpen /\ RowsOf(dbRequests, ret'.id) # {} =>
           \E r \in RowsOf(dbRequests, ret'.id) :
             /\ ret'.err = ""
             /\ ret'.val = ~r.Starred
             /\ dbRequests' = (dbRequests \ {r}) \cup {[r EXCEPT !.Starred = ~r.Starred]}
             /\ dbSessions' = dbSessions
             /\ ToggleStarUpdate(dbRequests', ret'.id) = dbRequests)
     /\ (ret'.op = "IsStarred" /\ dbOpen /\ RowsOf(dbRequests, ret'.id) # {} =>
           /\ \A r \in RowsOf(dbRequests, ret'.id) : ret'.val = r.Starred
           /\ UNCHANGED <<dbSessions, dbRequests>>)]_vars

\* ToggleStar has just unstarred a request (FALSE is the new flag)
C17_Witness ==
  /\ ret.op = "ToggleStar" /\ ret.err = "" /\ ret.val = FALSE
  /\ \E r \in RowsOf(dbRequests, ret.id) : ~r.Starred

\* C18: for an id that is not in the store, ToggleStar(id) and IsStarred(id)
\* both fail with NotFound and leave the store unchanged.
C18_UnknownIdNotFound ==
  [][ret'.op \in {"ToggleStar", "IsStarred"} /\ dbOpen /\ RowsOf(dbRequests, ret'.id) = {} =>
       /\ ret'.err = ErrNoRows
       /\ UNCHANGED <<dbSessions, dbRequests>>]_vars

\* the rows at least as recent as r, r apart
NotOlder(rows, r) == {q \in rows \ {r} : q.Timestamp >= r.Timestamp}

\* the rows more recent than r
Newer(rows, r) == {q \in rows : q.Timestamp > r.Timestamp}

\* the non-starred rows
Unstarred(rows) == {r \in rows : ~r.Starred}

\* C19: a successful Cleanup with cutoff c and keepCount K deletes only
\* non-starred requests older than c that K other non-starred requests are
\* at least as recent as; it keeps every non-starred request older than c
\* that fewer than K non-starred requests are newer than, store-wide; with N
\* non-starred requests all older than c and K < N it deletes exactly N-K,
\* none of them newer than one it keeps.
C19_CleanupPolicy ==
  [][ret'.op = "Cleanup" /\ ret'.err = "" =>
       /\ dbRequests' \subseteq dbRequests
       /\ \A r \in dbRequests \ dbRequests' :
            /\ ~r.Starred
            /\ r.Timestamp < ret'.args[1]
            /\ Cardinality(NotOlder(Unstarred(dbRequests), r)) >= ret'.args[2]
       /\ \A r \in Unstarred(dbRequests') :
            r.Timestamp >= ret'.args[1]
              \/ Cardinality(Newer(Unstarred(dbRequests), r)) < ret'.args[2]
       /\ ((\A r \in Unstarred(dbRequests) : r.Timestamp < ret'.args[1])
             /\ ret'.args[2] < Cardinality(Unstarred(dbRequests)) =>
               /\ Cardinality(dbRequests \ dbRequests')
                    = Cardinality(Unstarred(dbRequests)) - ret'.args[2]
               /\ \A d \in dbRequests \ dbRequests' : \A k \in Unstarred(dbRequests') :
                    d.Timestamp <= k.Timestamp)]_vars

\* Cleanup with keepCount 1 has deleted the older of two old non-starred
\* requests and kept the newer
C19_Witness ==
  /\ ret.op = "Cleanup" /\ ret.err = ""
  /\ ret.args[2] = 1 /\ ret.args[3] = 1
  /\ \E r \in dbRequests : /\ dbRequests = {r}
                           /\ ~r.Starred
                           /\ r.Timestamp = 2
                           /\ r.Timestamp < ret.args[1]

\* C20: Cleanup never deletes a starred request nor a session that still
\* contains a request; the sessions it removes are those left with no request.
C20_CleanupSafety ==
  [][ret'.op = "Cleanup" =>
       /\ \A r \in dbRequests : r.Starred => r \in dbRequests'
       /\ dbSessions' \subseteq dbSessions
       /\ \A sess \in dbSessions :
            sess \in dbSessions' <=> (ret'.err # "" \/ \E r \in dbRequests' : r.SessionID = sess.ID)]_vars

\* Cleanup has removed a session and kept a starred request older than the
\* cutoff, with its session
C20_Witness ==
  /\ ret.op = "Cleanup" /\ ret.err = ""
  /\ ret.args[4] >= 1
  /\ \E r \in dbRequests : /\ r.Starred
                           /\ r.Timestamp < ret.args[1]
                           /\ \E sess \in dbSessions : sess.ID = r.SessionID

\* ---- the session of a run (SpecLive) ----

\* this step hands the result of the i-th command under way to Update
Delivers(i) ==
  /\ i \in 1..Len(fetches)
  /\ fetches[i].state # "running"
  /\ fetches' = Remove(fetches, i)

\* C21: when the store could not be opened (App.storage is nil), whatever
\* the events, no store operation is made (no session becomes current, no
\* row is written, nothing is marked saved), the history view lists no
\* session and no stored session gets loaded, and every refresh result that
\* succeeded becomes the working set and leaves no error behind.
C21_WithoutStore ==
  /\ [](~storage =>
          /\ sessionID = 0 /\ started = {} /\ savedReqIDs = {}
          /\ dbSessions = PastSessions /\ dbRequests = PastRequests
          /\ ret = NoCall
          /\ historySessions = << >>
          /\ ~viewingHistory)
  /\ [][\A i \in 1..Len(fetches) :
          ~storage /\ Delivers(i) /\ fetches[i].state = "ok" =>
            /\ requests' = fetches[i].payload
            /\ lastError' = ""]_vars

\* without a store: the tunnels have answered, both requests of the feed
\* are listed and the (empty) history view is open
C21_Witness ==
  /\ ~storage
  /\ Len(tunnels) > 0
  /\ requests = <<U2, U1>>
  /\ focus = "FocusHistory"

\* the working set loadHistoricalSession builds from the rows of a session
LoadedFrom(rows, session) ==
  {[i \in 1..Len(histReqs) |-> HistoricalRequest(histReqs[i])] :
     histReqs \in GetSessionRequests(rows, session)}

\* C22: while a stored session is being viewed (viewingHistory, from
\* loadHistoricalSession to exitHistoryView) a refresh result handed to
\* Update, whenever its command was dispatched and answered, changes neither
\* the working set nor the visible set nor the table of requests nor the
\* set of saved ids; the working set is the requests of the viewed session.
C22_HistorySuppressesRefresh ==
  /\ [](viewingHistory => requests \in LoadedFrom(dbRequests, viewingSessionID))
  /\ [][viewingHistory /\ (\E i \in 1..Len(fetches) : Delivers(i)) =>
          UNCHANGED <<requests, filteredReqs, selected, dbRequests, savedReqIDs>>]_vars

\* a session is current and a stored one is being viewed when the answer
\* of a command that saw both requests of the feed is about to reach Update
C22_Witness ==
  /\ viewingHistory
  /\ sessionID # 0
  /\ Len(requests) > 0
  /\ \E i \in 1..Len(fetches) :
       fetches[i] = [state |-> "ok", payload |-> <<U2, U1>>]

\* the ids of the requests of a list / of the rows of a table
IDsOf(reqs) == {reqs[i].ID : i \in 1..Len(reqs)}

StoredIDs(rows) == {r.ID : r \in rows}

\* C23: a request the agent captured while a stored session was being
\* viewed is not backfilled: it never enters the working set and is never
\* written to the store, also not after exitHistoryView.
C23_NoBackfill ==
  \A id \in missed : id \notin IDsOf(requests) /\ id \notin StoredIDs(dbRequests)

\* ---- save and load (SpecReload) ----

\* C24: a request saved from the live feed and read back by
\* loadHistoricalSession shows the engines the same method, path, status
\* code, timestamp, headers and decoded bodies as the live request, and the
\* search and the filters decide the same on both.
C24_SaveLoadRoundTrip ==
  viewingHistory /\ Len(requests) = 1 =>
    /\ requests[1].Request.Method = fReq.Request.Method
    /\ requests[1].Request.URI = fReq.Request.URI
    /\ StatusCode(requests[1]) = StatusCode(fReq)
    /\ requests[1].Start = fReq.Start
    /\ requests[1].Request.Headers = fReq.Request.Headers
    /\ requests[1].Response.Headers = fReq.Response.Headers
    /\ DecodeBody(requests[1].Request) = DecodeBody(fReq.Request)
    /\ DecodeBody(requests[1].Response) = DecodeBody(fReq.Response)
    /\ Len(fResult) = 2 => fResult[1] = fResult[2]

\* C25: refresh results are applied in the order they reach Update: in live
\* mode the working set after a successful result is that result's list of
\* requests, whichever command was dispatched first; the snapshot of an
\* earlier command that arrives last replaces a newer one.
C25_ArrivalOrder ==
  [][\A i \in 1..Len(fetches) :
       Delivers(i) /\ fetches[i].state = "ok" /\ ~viewingHistory =>
         requests' = fetches[i].payload]_vars

\* u2 has been listed and saved, and the working set is back to the
\* snapshot taken before u2 was captured
C25_Witness ==
  /\ ~viewingHistory
  /\ "u2" \in savedReqIDs
  /\ feed = <<U2, U1>>
  /\ requests = <<U1>>

\* ---- exports (SpecExport) ----

\* the ids of a list that have a row, in the order of the list
FoundIn(rows, ids) == SelectSeq(ids, LAMBDA id : id \in StoredIDs(rows))

\* C26: ExportRequests given at least one id returns no error and writes
\* one record per listed id that has a row, in the order of the list: the
\* record of that row; an id without a row adds nothing and changes no other
\* record.  The store is left as it was.
C26_ExportRequests ==
  [][ret'.op = "ExportRequests" /\ ret'.args # << >> =>
       /\ ret'.err = ""
       /\ ret'.file.written
       /\ [i \in 1..Len(ret'.file.requests) |-> ret'.file.requests[i].id]
            = FoundIn(dbRequests, ret'.args)
       /\ \A i \in 1..Len(ret'.file.requests) :
            \E row \in dbRequests :
              /\ row.ID = ret'.file.requests[i].id
              /\ ret'.file.requests[i] = ExportRequest(row)
       /\ UNCHANGED <<dbRequests, dbSessions>>]_vars

\* an export of two ids, the first without a row, the second stored
C26_Witness ==
  /\ ret.op = "ExportRequests"
  /\ Len(ret.args) = 2
  /\ ret.args[1] \notin StoredIDs(dbRequests)
  /\ ret.args[2] \in StoredIDs(dbRequests)
  /\ Len(ret.file.requests) = 1
  /\ ret.file.requests[1].id = ret.args[2]

\* a header map read back from a file
ReadHeaders(eh) ==
  [k \in {DecodeJSONString(ek) : ek \in DOMAIN eh} |->
     LET ek == CHOOSE ek \in DOMAIN eh : DecodeJSONString(ek) = k
     IN  [i \in 1..Len(eh[ek]) |-> DecodeJSONString(eh[ek][i])]]

\* the fields of an ExportRequest read back from a file
ReadRequest(e) ==
  [method |-> DecodeJSONString(e.method), path |-> DecodeJSONString(e.path),
   status_code |-> e.status_code,
   req_headers |-> ReadHeaders(e.request.headers),
   req_body |-> DecodeJSONString(e.request.body),
   res_headers |-> ReadHeaders(e.response.headers),
   res_body |-> DecodeJSONString(e.response.body)]

\* the same fields of a stored row
StoredFields(row) ==
  [method |-> row.Method, path |-> row.Path, status_code |-> row.StatusCode,
   req_headers |-> row.ReqHeaders, req_body |-> row.ReqBody,
   res_headers |-> row.ResHeaders, res_body |-> row.ResBody]

\* C27: ExportSessionToJSON of a stored session writes a file that, read
\* back, gives for every request of the session, most recent first, the
\* stored method, path, status code, headers and bodies; for an id that is
\* not a stored session it returns an error and writes no file.
C27_ExportRoundTrip ==
  [][ret'.op = "ExportSessionToJSON" =>
       IF \E sess \in dbSessions : sess.ID = ret'.args[1]
       THEN /\ ret'.err = ""
            /\ ret'.file.written
            /\ \E reqs \in GetSessionRequests(dbRequests, ret'.args[1]) :
                 [i \in 1..Len(ret'.file.requests) |-> ReadRequest(ret'.file.requests[i])]
                   = [i \in 1..Len(reqs) |-> StoredFields(reqs[i])]
       ELSE ret'.err # "" /\ ret'.file = NoFile]_vars

\* ---- persistence of a run left alone (SpecPersist) ----

\* the store holds the request under the current session
SavedUnderSession(id) ==
  /\ sessionID # 0
  /\ \E r \in dbRequests : r.ID = id /\ r.SessionID = sessionID

\* C28: with the store open, every request of a successful live refresh
\* (every request that enters the working set in live mode) is eventually
\* stored under the current session, in whatever order the tunnels answer
\* and the refresh results arrive.
C28_AllPersisted ==
  \A id \in {"u1", "u2"} :
    (storage /\ ~viewingHistory /\ id \in IDsOf(requests)) ~> SavedUnderSession(id)


\* ---- failures of the database (SpecFaulty) ----

\* this step opens the history view: initHistoryView calls GetSessions
OpensHistory == focus # "FocusHistory" /\ focus' = "FocusHistory"

\* this step is Enter on a session of the history view, which was opened
\* from the detail panel (Escape would return there): handleHistoryInput
\* calls loadHistoricalSession, which calls GetSessionRequests
EntersSession ==
  /\ focus = "FocusHistory" /\ prevFocus = "FocusDetailPanel"
  /\ focus' = "FocusList"
  /\ Len(historySessions) > 0

\* this step hands a refresh that succeeded to Update in live mode, with a
\* session started and a listed request not saved yet: saveNewRequests
\* calls SaveRequest
SavesRefresh ==
  \E i \in 1..Len(fetches) :
    /\ Delivers(i) /\ fetches[i].state = "ok"
    /\ ~viewingHistory /\ sessionID # 0
    /\ IDsOf(fetches[i].payload) \ savedReqIDs # {}

\* C29: while the statements on the database fail, a step that calls
\* GetSessions (the history view opens), GetSessionRequests (Enter on a
\* stored session) or SaveRequest (a refresh with an unsaved request and a
\* session) leaves an error for the user in lastError, and the failed load
\* changes neither the working set nor the live/history mode.
C29_FailuresSurface ==
  [][storage /\ faults /\ faults' =>
       /\ OpensHistory \/ EntersSession \/ SavesRefresh => lastError' # ""
       /\ EntersSession => UNCHANGED <<requests, filteredReqs, selected,
                                      viewingHistory, viewingSessionID>>]_vars

\* C30: StartSession is all or nothing. A step that changes the current
\* session id has created the row of that id, with ended_at unset; a step
\* that creates no such row leaves the current session id as it was, so
\* that no request is ever stored under a session id without a row.
C30_StartSessionAllOrNothing ==
  [][/\ sessionID' # sessionID =>
          \E s \in dbSessions' \ dbSessions : s.ID = sessionID' /\ s.EndedAt = 0
     /\ \A r \in dbRequests' \ dbRequests :
          \E s \in dbSessions' : s.ID = r.SessionID]_vars

\* ---- the store and the run, last part ----

\* C31: whenever the store reports an active session (the current session
\* id is set and the database is open), table sessions holds a row of that
\* id.
C31_ActiveSessionHasRow ==
  sessionID # 0 /\ dbOpen => \E sess \in dbSessions : sess.ID = sessionID

\* ---- saving what the feed lists (SpecSaving) ----

\* C32: dedup before save. (1) The marks are never taken back, and an id gets
\* its mark in the step that stores its row under the current session.
\* (2) The row of a marked id is not written again in this process.
\* (3) A successful live refresh with a session stores and marks exactly
\* the listed ids without a mark when the database works, every one of
\* them the request as listed; it stores and marks nothing when the
\* database fails or no session is started, so that these ids are tried
\* again by the next such refresh.
C32_DedupBeforeSave ==
  [][/\ savedReqIDs \subseteq savedReqIDs'
     /\ \A id \in savedReqIDs' \ savedReqIDs :
          \E r \in RowsOf(dbRequests', id) : r.SessionID = sessionID /\ sessionID # 0
     /\ \A id \in savedReqIDs : RowsOf(dbRequests', id) = RowsOf(dbRequests, id)
     /\ \A i \in 1..Len(fetches) :
          Delivers(i) /\ fetches[i].state = "ok" /\ ~viewingHistory =>
            \E new \in {IDsOf(fetches[i].payload) \ savedReqIDs} :
              IF storage /\ sessionID # 0 /\ ~faults
              THEN /\ savedReqIDs' = savedReqIDs \cup new
                   /\ \A k \in 1..Len(fetches[i].payload) :
                        fetches[i].payload[k].ID \in new =>
                          HistoryRequest(fetches[i].payload[k], sessionID) \in dbRequests'
              ELSE UNCHANGED <<savedReqIDs, dbRequests>>]_vars

\* u1 is stored and marked; u2, listed with it by the last refresh, is not:
\* its SaveRequest failed, and the database works again
C32_Witness ==
  /\ sessionID # 0 /\ ~faults
  /\ requests = <<U2, U1>>
  /\ savedReqIDs = {"u1"}
  /\ RowsOf(dbRequests, "u2") = {}

\* C33: after a successful live refresh with a session started, on a
\* database that works, the stored row of every listed request carries the
\* status code, the duration and the two bodies the refresh reports for it.
C33_StoredAsReported ==
  [][\A i \in 1..Len(fetches) :
       /\ Delivers(i) /\ fetches[i].state = "ok"
       /\ ~viewingHistory /\ storage /\ sessionID # 0 /\ ~faults
       => \A k \in 1..Len(fetches[i].payload) :
            \E now \in {HistoryRequest(fetches[i].payload[k], sessionID)} :
              \E r \in RowsOf(dbRequests', now.ID) :
                /\ r.StatusCode = now.StatusCode
                /\ r.DurationMS = now.DurationMS
                /\ r.ReqBody = now.ReqBody
                /\ r.ResBody = now.ResBody]_vars

\* C34: the Starred flag of a stored request changes through ToggleStar
\* only: whatever other call is made, a request that stays stored keeps
\* its flag.
C34_StarOnlyByToggleStar ==
  [][\A r \in dbRequests : \A q \in RowsOf(dbRequests', r.ID) :
       q.Starred # r.Starred => ret'.op = "ToggleStar"]_vars

\* ---- refresh results that carry an error (SpecLive) ----

\* C35: a refresh result that carries an error records the error and
\* leaves the working set, the visible set, the selection and the store as
\* they are. A successful refresh result handled in live mode clears the
\* recorded error; one handled while a stored session is viewed leaves it.
C35_ErrorRefresh ==
  [][\A i \in 1..Len(fetches) :
       Delivers(i) =>
         /\ fetches[i].state = "err" =>
              /\ lastError' = "err"
              /\ UNCHANGED <<requests, filteredReqs, selected, savedReqIDs,
                             sessionID, dbSessions, dbRequests>>
         /\ fetches[i].state = "ok" /\ ~viewingHistory => lastError' = ""
         /\ fetches[i].state = "ok" /\ viewingHistory => lastError' = lastError]_vars

\* the tunnels have answered without an error and u1 has been listed and
\* saved; a later refresh failed and its error is on display, a further
\* one has its answer and waits to be handled
C35_Witness ==
  /\ ~tunnelsPending /\ Len(tunnels) > 0
  /\ requests = <<U1>> /\ "u1" \in savedReqIDs
  /\ lastError = "err"
  /\ \E i \in 1..Len(fetches) : fetches[i].state = "ok"

\* C35 as stated: every successful refresh result clears the recorded error
C35_ClearedByNextRefresh ==
  [][\A i \in 1..Len(fetches) :
       Delivers(i) /\ fetches[i].state = "ok" => lastError' = ""]_vars

\* ---- leaving a stored session (SpecLive) ----

\* C36: outside the viewing of a stored session, every request of the
\* working set and of the visible set is a request the agent has listed.
C36_LiveSetFromFeed ==
  ~viewingHistory =>
    \A r \in {requests[k] : k \in 1..Len(requests)}
             \cup {filteredReqs[k] : k \in 1..Len(filteredReqs)} :
      \E j \in 1..Len(feed) : feed[j] = r

\* ---- ticks, fetches and replays (SpecReplay) ----

\* this step handles a TickMsg
HandlesTick == fetches' = Append(fetches, Running) /\ replays' = replays

\* this step handles the ReplayMsg of the i-th replay under way
HandlesReplay(i) ==
  /\ i \in 1..Len(replays)
  /\ replays[i] # "running"
  /\ replays' = Remove(replays, i)

\* C37: polling never stops and never multiplies. One tickCmd is under way
\* at any time. A fetch is dispatched by a step that handles a tick, which
\* dispatches one, or by a step that handles the message of a replay that
\* succeeded, which dispatches one; the message of a failed replay
\* dispatches none. Ticks are handled again and again, whatever the mode
\* and the errors.
C37_Polling ==
  /\ [](ticks = 1)
  /\ [][/\ Len(fetches') > Len(fetches) =>
             \/ HandlesTick
             \/ \E i \in 1..Len(replays) : HandlesReplay(i) /\ replays[i] = "ok"
        /\ \A i \in 1..Len(replays) :
             HandlesReplay(i) =>
               fetches' = IF replays[i] = "ok" THEN Append(fetches, Running)
                          ELSE fetches]_vars
  /\ []<><<HandlesTick>>_vars

\* a stored session is viewed, the last refresh failed, a replay has
\* succeeded and its message waits to be handled, one tick is under way
C37_Witness ==
  /\ viewingHistory /\ lastError = "err"
  /\ \E i \in 1..Len(replays) : replays[i] = "ok"
  /\ ticks = 1

\* ---- the filters the wizard appends (SpecWizard) ----

\* the elements of a sequence
Range(s) == {s[i] : i \in 1..Len(s)}

\* C38: every filter of the active chain names a field of filterFields,
\* has an operator from that field's Operators and a value that is not
\* empty, and has a unit exactly when the field is numeric with units,
\* then one of that field's Units.
C38_WizardFiltersValid ==
  \A f \in Range(activeFilters) :
    \E i \in {getFieldByKey(f.Field)} :
      /\ i # 0
      /\ f.Operator \in Range(filterFields[i].Operators)
      /\ f.Value # << >>
      /\ IF filterFields[i].Type = "FilterTypeNumericWithUnit"
         THEN f.Unit \in Range(filterFields[i].Units)
         ELSE f.Unit = ""

\* ---- the selection (SpecSelect) ----

\* C39: the selection is an index of the visible set, and 0 when the
\* visible set is empty.
C39_SelectionValid ==
  IF filteredReqs = << >> THEN selected = 0
  ELSE selected \in 0..(Len(filteredReqs) - 1)

\* both requests are listed and the filter built by the wizard lets none
\* through: the visible set is empty
C39_Witness ==
  /\ requests = <<U2, U1>>
  /\ Len(activeFilters) > 0
  /\ filteredReqs = << >>
  /\ selected = 0
  /\ focus = "FocusList"

\* ---- the modes and the key esc (SpecModal) ----

Modal == focus \in {"FocusSearch", "FocusFilter", "FocusReplayEdit", "FocusDiff",
                    "FocusHistory"}

\* the number of presses of esc after which the focus is back on the list
\* or the detail panel
EscapesLeft ==
  LET value == IF PendingField # 0
                  /\ filterFields[PendingField].Type = "FilterTypeNumericWithUnit"
               THEN 4 ELSE 3
  IN  CASE focus = "FocusFilter" ->
             (CASE filterStep = "FilterStepField" -> 1
                [] filterStep = "FilterStepOperator" -> 2
                [] filterStep = "FilterStepUnit" -> 3
                [] filterStep = "FilterStepValue" -> value
                [] filterStep = "FilterStepLogical" -> value + 1)
        [] focus = "FocusReplayEdit" ->
             (CASE replayEditStep = "ReplayEditStepMain" -> 1
                [] replayEditStep = "ReplayEditStepHeaderEdit" -> 3
                [] OTHER -> 2)
        [] focus \in {"FocusSearch", "FocusDiff", "FocusHistory"} -> 1
        [] OTHER -> 0

\* the handler of the mode reaches its case for esc: the handlers of the
\* operator and unit steps return before it when the pending field is unknown
EscapeHandled ==
  focus = "FocusFilter" /\ filterStep \in {"FilterStepOperator", "FilterStepUnit"}
    => PendingField # 0

\* C40: in a modal mode (search, filter wizard, replay editor, diff,
\* history) the saved previous focus is the list or the detail panel and the
\* key esc is handled; each press of esc in a modal mode brings the focus one
\* step nearer to the list or the detail panel, which is reached after
\* EscapesLeft presses; no step that changes the focus, the saved focus or
\* the step of the wizard or of the editor is the handling of a refresh.
C40_NoModalTrap ==
  /\ [](Modal => /\ prevFocus \in {"FocusList", "FocusDetailPanel"}
                 /\ EscapeHandled)
  /\ [][Modal /\ EscapeKey =>
          /\ EscapesLeft' = EscapesLeft - 1
          /\ EscapesLeft' = 0 => focus' = prevFocus]_vars
  /\ [][<<focus, prevFocus, filterStep, replayEditStep>>'
          # <<focus, prevFocus, filterStep, replayEditStep>> => ~Refresh]_vars

\* esc has just closed the editing of a header, opened from the detail panel
C40_Witness ==
  /\ focus = "FocusReplayEdit"
  /\ prevFocus = "FocusDetailPanel"
  /\ replayEditStep = "ReplayEditStepHeaders"
  /\ replayHeaderField = "key"

====
